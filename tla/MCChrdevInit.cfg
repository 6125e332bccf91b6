SPECIFICATION Spec
CONSTANTS
  Drivers <- MCDrivers
  Faults = {"cdev_alloc", "cdev_add", "class_create", "device_create"}
INVARIANTS
  NothingLeftBehind
  DeviceFilesWork
  OpenDriverStays
  LoadedHasDevice
