-------------------------- MODULE OperationPayload --------------------------
(***************************************************************************)
(* _build_create_payload: what the web client makes of the draft of an     *)
(* operation before it asks the server to create it, and when it refuses   *)
(* the draft instead.                                                      *)
(*                                                                         *)
(* A draft is a record                                                     *)
(*   [type, site, source, dest, recipient, dated, lines, key]              *)
(* recipient and dated say whether a recipient is named and the date can   *)
(* be read; key is the client_request_id of the draft.  A line is a record *)
(*   [kind, item, name, unit, category, tmp, qty]                          *)
(* whose kind is "" when the draft leaves it open; name says whether the   *)
(* line is named, tmp is the client_key of a temporary line.               *)
(***************************************************************************)
EXTENDS Integers, Sequences

CONSTANTS
  Sites,        \* every warehouse
  None          \* a field the draft leaves empty

\* Types the form lists but the web client does not create yet.
Disabled == {"ISSUE", "ISSUE_RETURN"}

\* The kind of a line, inferred when the draft does not say.
Kind(line) ==
  CASE line.kind # ""    -> line.kind
    [] line.item # None  -> "catalog"
    [] line.name /\ line.unit # None /\ line.category # None -> "temporary"
    [] OTHER             -> "unknown"

\* A quantity that does not fit three decimals and the limit of 10^15 reads as None.
QtyOk(line, type) ==
  /\ line.qty # None
  /\ line.qty # 0
  /\ type = "ADJUSTMENT" \/ line.qty > 0

LineOk(line, type) ==
  /\ QtyOk(line, type)
  /\ \/ Kind(line) = "catalog" /\ line.item # None
     \/ Kind(line) = "temporary" /\ line.name

\* No catalogue item twice, and no client_key twice.
NoRepeat(lines) ==
  \A i, j \in DOMAIN lines :
    i # j /\ Kind(lines[i]) = Kind(lines[j]) =>
      IF Kind(lines[i]) = "catalog"
      THEN lines[i].item # lines[j].item
      ELSE lines[i].tmp = None \/ lines[i].tmp # lines[j].tmp

\* A storekeeper's operation starts at the one warehouse the account is bound to.
Start(d, fixed) ==
  IF fixed # None THEN fixed ELSE IF d.type = "MOVE" THEN d.source ELSE d.site

\* Mutant: a move may end where it starts, and anywhere.
RouteOkMutant(d, fixed, operable, known) == Start(d, fixed) \in operable

RouteOk(d, fixed, operable, known) ==
  /\ Start(d, fixed) \in operable
  /\ d.type = "MOVE" => d.dest \in known /\ d.dest # Start(d, fixed)

DraftOk(d, fixed, operable, known) ==
  /\ d.type \notin Disabled \cup {""}
  /\ d.lines # <<>>
  /\ d.dated
  /\ RouteOk(d, fixed, operable, known)
  /\ d.type = "EXPENSE" => d.recipient
  /\ \A i \in DOMAIN d.lines : LineOk(d.lines[i], d.type)
  /\ NoRepeat(d.lines)

\* validateBeforeSubmit: the browser sends no draft that lacks this much.
BrowserOk(d) ==
  /\ d.lines # <<>>
  /\ IF d.type = "MOVE"
     THEN d.source # None /\ d.dest # None /\ d.source # d.dest
     ELSE d.site # None
  /\ d.type \in {"EXPENSE"} \cup Disabled => d.recipient
  /\ d.dated
  /\ \A i \in DOMAIN d.lines : QtyOk(d.lines[i], d.type)

\* Only a line that says so itself counts as temporary here, an inferred one does not.
HasTemporary(d) == \E i \in DOMAIN d.lines : d.lines[i].kind = "temporary"

\* The draft's own key if it has one, else a fresh one; none without temporary lines.
RequestKey(d, fresh) ==
  CASE ~HasTemporary(d) -> None
    [] d.key # None     -> d.key
    [] OTHER            -> fresh

\* What is posted for an accepted draft.  Line i carries line_number i.
Payload(d, fixed, fresh) ==
  [ type  |-> d.type,
    site  |-> Start(d, fixed),
    dest  |-> IF d.type = "MOVE" THEN d.dest ELSE None,
    key   |-> RequestKey(d, fresh),
    lines |-> [i \in DOMAIN d.lines |->
                 [item |-> IF Kind(d.lines[i]) = "catalog" THEN d.lines[i].item ELSE None,
                  qty  |-> d.lines[i].qty]] ]

\* What was ordered, whatever the key it was sent under.
Content(payload) == <<payload.type, payload.site, payload.dest, payload.lines>>
=============================================================================
