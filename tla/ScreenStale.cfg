SPECIFICATION FairSpec
CONSTANTS
  Width = 2
  Height = 5
  Wrap = 8
  Hour = 3
  a = a
  Point = {a}
  Reads <- MCReads
  Deadline = {2}
  Ahead = 2
  Literal = {7}
  TextWidth <- MCTextWidth
  PercentWidth <- MCPercentWidth
  NoteWidth = 1
  LineHeight = 2
  GaugeSide = 2
  Ttl = 1
  None = None
  Native = Native
  Torn = Torn
  Picture = Picture
  Name = {"c", "i", "l", "r"}
  Files <- MCFiles
  Layouts <- MCLayouts
  Widgets <- MCWidgets
  Ids = {"r"}
  Observed = {None}
PROPERTY StaleMarked
