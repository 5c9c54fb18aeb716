SPECIFICATION LiveSpec
CONSTANTS
  MaxRenewals = 2
  MaxChanges = 3
  MaxCrashes = 2
PROPERTIES ChoiceStands OptOutRemoves RenewedIsUsed
