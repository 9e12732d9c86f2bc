SPECIFICATION Spec
CONSTANTS
  Names = {1, 2, 3}
  Stem <- MCStem
  avif = avif
  png = png
  webp = webp
  Formats = {avif, webp, png}
  Png = png
  Default = Default
  e1 = e1
  Typed = {e1}
  Blank = Blank
  Bad = Bad
  NoFile = NoFile
  NoRun = NoRun
  Platforms = {"windows", "linux"}
  MaxEdits = 2
  MaxFaults = 1
PROPERTIES RunsWhatIsShown SaveKeepsThePage PageFollowsPreset
