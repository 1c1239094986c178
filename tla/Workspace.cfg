\* Sessions of small programs over three contexts, one run over the budgets of
\* all of them.  A program with nothing left to do stops.
CONSTANTS
  NameOrder <- MCNameOrder
  Globals <- MCGlobals
  Delimiters <- MCDelimiters
  Menus <- MCMenus
  MaxFrames = 2
  Forms <- MCForms
  Applications <- MCApplications
  Arguments <- MCArguments
  Targets <- MCTargets
  Receivers <- MCReceivers
  PlaceExprs <- MCPlaceExprs
  Methods = {"m"}
  Lambdas <- MCLambdas
  Saves <- MCSaves
  Scripts <- MCScripts
SPECIFICATION Spec
INVARIANTS TypeOK SelfIsReceiver PlacesHoldValues
PROPERTIES LoadRestores
CHECK_DEADLOCK FALSE
