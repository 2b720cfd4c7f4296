SPECIFICATION Spec
CONSTANTS
  Addrs = {a1, a2}
  MaxChanges = 2
  MaxBreaks = 1
  MaxFaults = 1
INVARIANTS ConnsCounted PickerFits ErrorHasCause
PROPERTY EventuallyServes
