SPECIFICATION Spec
CONSTANTS
  a = a
  b = b
  NoHolder = NoHolder
  NoVersion = 0
  Instances <- MCInstances
  Versions <- MCVersions
  TTL <- SameTTL
  Renew <- EachRenew
  Second = 1
  KeyID <- TwoKeys
  Suspending <- Nothing
  Jumps <- WallJumps
  Floors <- MCFloors
  Horizon = 3
  MaxWire = 2
  MaxEpoch = 2
VIEW Live
PROPERTY KeyKept
