---------------------------- MODULE PopupManager ----------------------------
(***************************************************************************)
(* The stack of open popups (popup-manager.ts) as operators on a sequence  *)
(* whose last element is the popup on screen.  Popups of one type other    *)
(* than "error" are told apart by their type alone, as only one of a type  *)
(* may be open.                                                            *)
(***************************************************************************)
EXTENDS InOrder, Sequences

CONSTANT PopupLimit  \* how many popups the stack holds (50 in the app)

ASSUME PopupLimitAssumption == PopupLimit \in Nat \ {0}

NoPopup == "none"

\* The last popup of the stack, or null.
CurrentPopup(stack) == IF stack = <<>> THEN NoPopup ELSE stack[Len(stack)]

AreTherePopupsOfType(stack, type) == \E i \in DOMAIN stack : stack[i] = type

\* Above the limit the oldest popup goes.
CheckStackLength(stack) == IF Len(stack) > PopupLimit THEN Tail(stack) ELSE stack

\* Mutant: on top of the errors.
InsertOnTop(stack, type) == Append(stack, type)

\* What filter makes of the stack.
OfType(stack, type)  == ElementsAt(stack, {i \in DOMAIN stack : stack[i] = type})
NotOfType(stack, type) == ElementsAt(stack, {i \in DOMAIN stack : stack[i] # type})

InsertBeforeErrorPopups(stack, type) ==
  IF CurrentPopup(stack) # "error" THEN Append(stack, type)
  ELSE NotOfType(stack, "error") \o <<type>> \o OfType(stack, "error")

\* A popup is added once per type, below the errors; errors go on top.
AddPopup(stack, type) ==
  IF type = "error" THEN CheckStackLength(Append(stack, type))
  ELSE IF AreTherePopupsOfType(stack, type) THEN stack
  ELSE CheckStackLength(InsertBeforeErrorPopups(stack, type))

\* Removal by id, here only of the popup on screen.
RemoveCurrent(stack) == SubSeq(stack, 1, Len(stack) - 1)

RemovePopupByType(stack, type) == NotOfType(stack, type)

\* AppStore._closePopup: without a type it closes the popup on screen, with a
\* type it closes nothing unless that type is on screen.
ClosePopup(stack) == IF stack = <<>> THEN stack ELSE RemoveCurrent(stack)

ClosePopupOfType(stack, type) ==
  IF CurrentPopup(stack) = type THEN RemovePopupByType(stack, type) ELSE stack

\* The order the comments of the class promise: errors are last, and no other
\* type is open twice.
StackIsOrdered(stack) ==
  /\ \A i, j \in DOMAIN stack : stack[i] = "error" /\ i < j => stack[j] = "error"
  /\ \A i, j \in DOMAIN stack : stack[i] = stack[j] /\ i # j => stack[i] = "error"
=============================================================================
