CONSTANTS
  MethodOrder <- MCMethods
  DeclarationsOf <- MCDeclarations
SPECIFICATION Spec
INVARIANTS VirtualCallsDispatch
CHECK_DEADLOCK FALSE
