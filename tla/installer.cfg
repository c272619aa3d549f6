SPECIFICATION InstallerSpec
CONSTANTS
  Offered = {p1, p2}
  MaxTroubles = 2
  MaxClicks = 3
PROPERTIES SetupWorksAlone SetupInstallsTheChoice
CHECK_DEADLOCK FALSE
