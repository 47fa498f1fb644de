SPECIFICATION FairSpec
CONSTANTS
  front = front
  rear = rear
  Keys <- TwoImages
  QueueSize = 1
  MaxSaves <- Saves
  MaxFaults = 2
INVARIANTS ImageSurvives UploadIsDurable
PROPERTIES SavedIsUploaded
CHECK_DEADLOCK FALSE
