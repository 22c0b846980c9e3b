SPECIFICATION BuildingSpec
CONSTANTS
  marsh = marsh
  keep = keep
  bog = bog
  imp = imp
  hall = hall
  blade = blade
  code = code
  ann = ann
  bob = bob
  Area = {marsh, keep, bog}
  Founded = {marsh, keep}
  Sovereign = 2
  Mobile = {imp}
  Object = {blade}
  Room = {hall}
  Program = {code}
  Home <- mc_Home
  First = {hall, blade, code}
  Text = {old, new}
  old = old
  new = new
  Builder = {ann, bob}
  Security <- mc_Security
  Unflagged = {}
  Inside = FALSE
  Fails = {}
  Keeper = {new}
  None = None
INVARIANTS UnflaggedIsOnFile
