\* A CFString, its twin and an NSString; four calls, two containers.
SPECIFICATION OSpec
CONSTANTS
  Texts <- OneText
  StartStrings = 2
  StartText = "a"
  MaxObjects = 4
  MaxHost = 5
  MaxItems = 2
  MaxCalls = 4
  MaxContainers = 2
PROPERTIES
  ObjectsHonest
\* The bound on objects stops the model.
CHECK_DEADLOCK FALSE
