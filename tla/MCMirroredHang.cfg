SPECIFICATION Spec
CONSTANTS
  Names = {"a", "b", "c"}
  Values = {"v_a", "w_a", "v_b", "w_b", "v_c"}
  Nothing = Nothing
  NSectors = 6
  Hash <- MCHash
  Size <- MCSize
  Order <- MCOrder
  ValuesOf <- MCValuesOf
  Factory <- MCFactory
  MaxCuts = 1
INVARIANTS
  CallsReturn
