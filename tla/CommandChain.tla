---------------------------- MODULE CommandChain ----------------------------
(***************************************************************************)
(* The command thread (commandthread.cpp, commandled.cpp,                  *)
(* commanddelay.cpp) with the link it posts to.  The Run button of a       *)
(* command panel hands a text to StartCommandChain, in the GUI thread,     *)
(* which puts it in place of cmd_text_ and starts the thread unless it is  *)
(* running; run() reads lines through a QTextStream over cmd_text_ itself, *)
(* of which the stream keeps the address and an offset.  So a text that    *)
(* comes while another is being run is read on from wherever the offset    *)
(* happens to be.                                                          *)
(*                                                                         *)
(* A text is a sequence of lines, a line what it does and where in the     *)
(* text it begins and ends, its line break included.  A led line is for   *)
(* the robot of XpiderSocketThread ("led all", or its index): for a robot  *)
(* that does not exist the code calls through a null pointer.  The colours *)
(* are in the message, which is a number here.  The assignment of the      *)
(* string and the read of a line are atomic, which no lock ensures.        *)
(***************************************************************************)
EXTENDS XpiderSocketThread

CONSTANTS
  Text,              \* the texts users enter: sequences of lines
  MaxTexts           \* bound: how often Run is clicked

ASSUME TextAssumption ==
  /\ MaxTexts \in Nat
  /\ \A text \in Text :
       /\ text \in Seq([does : {"led", "delay", "nothing"}, from : Nat, to : Nat])
       /\ \A k \in DOMAIN text :
            /\ text[k].from < text[k].to
            /\ text[k].from = IF k = 1 THEN 0 ELSE text[k - 1].to

VARIABLES
  cmd_text_,
  thread,            \* QThread: "idle", "started", "running", "asleep", "finishing"
  offset,            \* QTextStream: characters read of cmd_text_
  texts,             \* history: texts entered
  origin,            \* history: text and line each message was posted for,
                     \* <<0, 0>> for the messages of other threads
  overlapped         \* history: the last text was entered before the one before it was done

chainVars == <<cmd_text_, thread, offset, texts, origin, overlapped>>
allVars == <<vars, chainVars>>

ChainInit ==
  /\ Init
  /\ cmd_text_ = <<>> /\ thread = "idle" /\ offset = 0
  /\ texts = 0 /\ origin = <<>> /\ overlapped = FALSE

-----------------------------------------------------------------------------
(* Texts and the stream.                                                   *)

\* QTextStream::atEnd() asks for equality: an offset behind the end of a shorter
\* text is not at the end, and nothing can be read there.
Size(text) == Last(text).to
atEnd == offset = Size(cmd_text_)
Readable == offset < Size(cmd_text_)

\* The line that the next character is in.
Current == CHOOSE k \in DOMAIN cmd_text_ :
  cmd_text_[k].from <= offset /\ offset < cmd_text_[k].to

\* The rest of a line that readLine returns from the middle of it begins with
\* no command's name.
Fragment == offset # cmd_text_[Current].from
Does == IF Fragment THEN "nothing" ELSE cmd_text_[Current].does

-----------------------------------------------------------------------------

\* start() does nothing while the thread runs, and until it has ended for good.
StartCommandChain(text) ==
  /\ cmd_text_' = text
  /\ thread' = IF thread = "idle" THEN "started" ELSE thread

\* The Run button, runCommandText: the panel shows "command accepted &
\* running..." in any case.
RunClicked(text) ==
  /\ texts < MaxTexts /\ text # <<>>
  /\ StartCommandChain(text)
  /\ texts' = texts + 1
  /\ overlapped' = (thread # "idle")
  /\ UNCHANGED <<vars, offset, origin>>

\* Mutant of Run: the stream is kept from one text to the next.
Run_KeepsStream ==
  /\ thread = "started"
  /\ thread' = "running"
  /\ UNCHANGED <<vars, cmd_text_, offset, texts, origin, overlapped>>

\* run() sets a stream over the string that is there by now.
Run ==
  /\ thread = "started"
  /\ thread' = "running" /\ offset' = 0
  /\ UNCHANGED <<vars, cmd_text_, texts, origin, overlapped>>

\* One line that posts nothing: an unknown or incomplete command, or a delay.
Skip ==
  /\ thread = "running" /\ Readable /\ Does # "led"
  /\ thread' = IF Does = "delay" THEN "asleep" ELSE thread
  /\ offset' = cmd_text_[Current].to
  /\ UNCHANGED <<vars, cmd_text_, texts, origin, overlapped>>

Wake ==
  /\ thread = "asleep" /\ thread' = "running"
  /\ UNCHANGED <<vars, cmd_text_, offset, texts, origin, overlapped>>

\* CommandLed::Exec.
LedExec ==
  /\ thread = "running" /\ Readable /\ Does = "led"
  /\ SendMessage
  /\ origin' = Append(origin, <<texts, Current>>)
  /\ offset' = cmd_text_[Current].to
  /\ UNCHANGED <<cmd_text_, thread, texts, overlapped>>

\* The loop ends; a text that comes before the thread has ended is not run.
Leave ==
  /\ thread = "running" /\ atEnd
  /\ thread' = "finishing"
  /\ UNCHANGED <<vars, cmd_text_, offset, texts, origin, overlapped>>

Finish ==
  /\ thread = "finishing" /\ thread' = "idle"
  /\ UNCHANGED <<vars, cmd_text_, offset, texts, origin, overlapped>>

\* The planner and the GUI post to the same link.
PostedByOthers ==
  /\ SendMessage
  /\ origin' = Append(origin, <<0, 0>>)
  /\ UNCHANGED <<cmd_text_, thread, offset, texts, overlapped>>

Link == (TimeoutRetry \/ EventThread \/ Lose \/ Return) /\ UNCHANGED chainVars

CommandThread == Run \/ Skip \/ Wake \/ LedExec \/ Leave \/ Finish

ChainNext ==
  \/ \E text \in Text : RunClicked(text)
  \/ CommandThread \/ PostedByOthers \/ Link

ChainSpec == ChainInit /\ [][ChainNext]_allVars
ChainFairSpec == ChainSpec /\ Fairness /\ WF_allVars(CommandThread)

-----------------------------------------------------------------------------

\* The led lines of a text.
LedLines(text) == {k \in DOMAIN text : text[k].does = "led"}

\* A line comes before another, of the same text or a later one.
Before(p, q) == p[1] < q[1] \/ (p[1] = q[1] /\ p[2] < q[2])

\* The messages of the command thread, and those for the text entered last.
Own == {j \in DOMAIN origin : origin[j] # <<0, 0>>}
Latest == {j \in Own : origin[j][1] = texts}

\* Each line of what users enter is executed at most once, and in the order
\* entered, also when texts overlap; and a text that is entered while no other
\* is being run is executed as a whole.
CommandsRunInOrder ==
  /\ \A i, j \in Own : i < j => Before(origin[i], origin[j])
  /\ thread = "idle" /\ texts > 0 /\ ~overlapped =>
       {origin[j][2] : j \in Latest} = LedLines(cmd_text_)
=============================================================================
