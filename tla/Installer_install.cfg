SPECIFICATION Spec
CONSTANTS
  u1 = u1
  u2 = u2
  hd = hd
  dvd = dvd
  Devices <- MCDevices
  Size <- MCSize
  Removable = {u1, u2, dvd}
  Skipped = {dvd}
  PNamed = {u2}
  EspInputs <- MCEspInputs
  RootInputs <- MCRootInputs
  Names = {"root", "alice", "writeonce", "dbus"}
  Passwords = {"pw", "secret"}
  GoodPassword = {"secret"}
  Layouts = {"us", "X!"}
  GoodText = {"root", "alice", "writeonce", "dbus", "us"}
  Specs <- MCSpecs
  Roots <- MCRoots
  Groups = {"wheel"}
  Changing = {"kernel"}
  MayFail = {"manifest", "spec", "sgdisk", "mkfs", "mount", "extract", "customize", "copy", "usb", "umount", "lazy", "tui"}
INVARIANTS WipedOnlyWithConsent ConfirmedFormIsValid UnwoundInOrder SuccessIsVerified AccountIsWhole
CHECK_DEADLOCK FALSE
