\* No events or blocks are needed to see the order of the shutdown.
CONSTANTS
  MaxOverloads = 0
  MaxDeliveries = 1
  MaxFailures = 0
SPECIFICATION CaptureSpec
INVARIANT DrainedBeforeRelease
