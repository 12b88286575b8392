SPECIFICATION Spec
CONSTANTS
  Place = {p1, p2, p3}
  reset_pos_ = reset_pos_
  max_xpider_num_ = 2
  host_size = 2
SYMMETRY PlaceSymmetry
INVARIANTS SelectionIsShown PictureIsRight
