SPECIFICATION FairSpec
CONSTANTS FirstTries = 2  SecondTries = 3  MaxMaps = 2
INVARIANTS LockedWhileRunning LaunchReturnsLocked SleepLockHeldUntilLocked ControllerInRunner
PROPERTIES UnlockReleasesScreen SleepLockReleased StaysOnTop
