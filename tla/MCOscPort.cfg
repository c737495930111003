SPECIFICATION Spec
CONSTANTS
  Addresses <- MCAddresses
  Randoms <- MCRandoms
  Texts <- MCTexts
  BufferSize = 64
  MaxSent = 3
INVARIANTS ReadAsMeant CodeFindsServer ArgumentsAreThere
