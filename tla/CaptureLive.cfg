\* One block and one overload event: each can ask for the end of the stream.
CONSTANTS
  MaxOverloads = 1
  MaxDeliveries = 1
  MaxFailures = 1
SPECIFICATION FairCaptureSpec
PROPERTY StopEndsCapture
