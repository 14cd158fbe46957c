\* The Home key alone: one press shows what the tables make of it.
SPECIFICATION Spec
CONSTANTS
  Keys = {"A", "Home"}
  MaxQueue = 2
PROPERTIES HomeIsDecoded
