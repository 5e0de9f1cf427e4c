\* The provides and declares of an endpoint, over the expressions of MCSelect.
SPECIFICATION Spec
CONSTANTS
  Selects <- MCSelects
  Declares <- MCDeclares
CHECK_DEADLOCK FALSE
INVARIANTS RowsAsWritten DeclaredAsWritten
