-------------------------- MODULE AcceptanceProofs --------------------------
(***************************************************************************)
(* Theorems about Acceptance, for any number of lines, requests and pages. *)
(***************************************************************************)
EXTENDS Acceptance, TLAPS, FiniteSetTheorems, WellFoundedInduction

-----------------------------------------------------------------------------
(* The pages of the pending register. *)

\* The rank of a pending line is a natural number, and orders lines as their ids do.
LEMMA RankStrict ==
  ASSUME NEW l \in PendingLines, NEW m \in PendingLines, l < m
  PROVE  Rank(l) \in Nat /\ Rank(m) \in Nat /\ Rank(l) < Rank(m)
<1> DEFINE L == {k \in PendingLines : k <= l}
           M == {k \in PendingLines : k <= m}
<1>1. IsFiniteSet(Lines) /\ Lines \subseteq Nat
  BY AcceptanceAssumption
<1>2. IsFiniteSet(M)
  BY <1>1, FS_Subset DEF PendingLines
<1> l \in Nat /\ m \in Nat /\ PendingLines \subseteq Nat
  BY <1>1 DEF PendingLines
<1>3. L \subseteq M
  <2>1. SUFFICES ASSUME NEW k \in PendingLines, k <= l
                 PROVE  k <= m
    OBVIOUS
  <2>2. k \in Nat /\ l \in Nat /\ m \in Nat /\ k <= l /\ l < m
    BY <2>1
  <2>3. QED
    BY <2>2
<1>4. m \in M /\ m \notin L
  OBVIOUS
<1>5. /\ IsFiniteSet(L)
      /\ Cardinality(L) <= Cardinality(M)
      /\ Cardinality(M) # Cardinality(L)
  BY <1>2, <1>3, <1>4, FS_Subset
<1>6. Cardinality(L) \in Nat /\ Cardinality(M) \in Nat
  BY <1>2, <1>5, FS_CardinalityType
<1>7. QED
  BY <1>5, <1>6 DEF Rank

\* A page is a finite set of lines and holds no more of them than it was asked for.
LEMMA PageBound ==
  ASSUME NEW p \in Nat \ {0}, NEW size \in Nat
  PROVE  /\ ServerPage(p, size) \subseteq Lines
         /\ IsFiniteSet(ServerPage(p, size))
         /\ Cardinality(ServerPage(p, size)) \in 0 .. size
<1> DEFINE S == ServerPage(p, size)
           f == [l \in S |-> Rank(l) - (p - 1) * size]
<1>1. S \subseteq PendingLines /\ PendingLines \subseteq Lines
  BY DEF ServerPage, PendingLines
<1>2. IsFiniteSet(Lines) /\ Lines \subseteq Nat
  BY AcceptanceAssumption
<1>3. IsFiniteSet(S) /\ IsFiniteSet(PendingLines)
  BY <1>1, <1>2, FS_Subset
<1>4. (p - 1) * size \in Nat /\ p * size = (p - 1) * size + size
  OBVIOUS
<1>5. ASSUME NEW l \in S
      PROVE  f[l] \in 1 .. size
  <2>1. IsFiniteSet({k \in PendingLines : k <= l})
    BY <1>3, FS_Subset
  <2>2. Rank(l) \in Nat
    BY <2>1, FS_CardinalityType DEF Rank
  <2>3. (p - 1) * size < Rank(l) /\ Rank(l) <= (p - 1) * size + size
    BY <1>4 DEF ServerPage
  <2>4. f[l] = Rank(l) - (p - 1) * size
    OBVIOUS
  <2>5. QED
    BY <1>4, <2>2, <2>3, <2>4
<1>6. ASSUME NEW l \in S, NEW m \in S, f[l] = f[m]
      PROVE  l = m
  <2>1. l \in PendingLines /\ m \in PendingLines /\ l \in Nat /\ m \in Nat
    BY <1>1, <1>2
  <2>2. Rank(l) - (p - 1) * size = Rank(m) - (p - 1) * size
    BY <1>6
  <2>3. CASE l < m
    BY <1>4, <2>1, <2>2, <2>3, RankStrict
  <2>4. CASE m < l
    BY <1>4, <2>1, <2>2, <2>4, RankStrict
  <2>5. QED
    BY <2>1, <2>3, <2>4
<1>7. f \in Injection(S, 1 .. size)
  BY <1>5, <1>6 DEF Injection, IsInjective
<1>8. IsFiniteSet(1 .. size) /\ Cardinality(1 .. size) = size
  BY FS_Interval
<1>9. Cardinality(S) <= size
  BY <1>7, <1>8, FS_Injection
<1>10. Cardinality(S) \in Nat
  BY <1>3, FS_CardinalityType
<1>11. QED
  BY <1>1, <1>3, <1>9, <1>10

-----------------------------------------------------------------------------
(* The form. *)

\* A quantity of the form counts as an integer, whatever was typed.
LEMMA QtyType ==
  ASSUME TypeOK, NEW r \in Requests, NEW l \in Lines
  PROVE  Acc(r, l) \in Int /\ Lst(r, l) \in Int
<1>1. form[r][l].acc \in Entries /\ form[r][l].lst \in Entries
  BY DEF TypeOK, FormType
<1>2. QED
  BY <1>1 DEF Acc, Lst, ToQty, Entries

\* A form fits exactly when it takes from every line, posted or not, a share of what is left.
LEMMA FitsAllLines ==
  ASSUME TypeOK, NEW r \in Requests, NEW left \in [Lines -> Nat]
  PROVE  Fits(r, left) <=> \A l \in Lines : /\ Acc(r, l) >= 0
                                            /\ Lst(r, l) >= 0
                                            /\ Acc(r, l) + Lst(r, l) <= left[l]
<1>1. ASSUME NEW l \in Lines, l \notin Posted(r)
      PROVE  Acc(r, l) >= 0 /\ Lst(r, l) >= 0 /\ Acc(r, l) + Lst(r, l) <= left[l]
  <2>1. Acc(r, l) = 0 /\ Lst(r, l) = 0 /\ left[l] \in Nat
    BY <1>1 DEF Posted
  <2>2. QED
    BY <2>1
<1>2. QED
  BY <1>1 DEF Fits, Posted

-----------------------------------------------------------------------------
(* Type correctness. *)

\* The page size never exceeds what is left of the row budget.
LEMMA PageSizeRange ==
  ASSUME TypeOK, NEW r \in Requests
  PROVE  PageSize(r) \in 0 .. (MaxRows - got[r])
<1>1. got[r] \in 0 .. MaxRows /\ MaxRows \in Nat /\ PageCap \in Nat
  BY AcceptanceAssumption DEF TypeOK
<1>2. QED
  BY <1>1 DEF PageSize

\* One iteration of the page loop keeps the row budget.
LEMMA PageFits ==
  ASSUME TypeOK, NEW r \in Requests
  PROVE  LET items == ServerPage(page[r], PageSize(r))
         IN  /\ items \subseteq Lines
             /\ Cardinality(items) \in Nat
             /\ got[r] + Cardinality(items) \in 0 .. MaxRows
<1>1. page[r] \in Nat \ {0} /\ got[r] \in 0 .. MaxRows /\ MaxRows \in Nat
  BY AcceptanceAssumption DEF TypeOK
<1>2. PageSize(r) \in Nat /\ PageSize(r) <= MaxRows - got[r]
  BY <1>1, PageSizeRange
<1>3. /\ ServerPage(page[r], PageSize(r)) \subseteq Lines
      /\ Cardinality(ServerPage(page[r], PageSize(r))) \in 0 .. PageSize(r)
  BY <1>1, <1>2, PageBound
<1>4. QED
  BY <1>1, <1>2, <1>3

LEMMA TypeInit == Init => TypeOK
BY AcceptanceAssumption DEF Init, TypeOK, NoEntry, FormType, Entries, Outcomes

LEMMA TypeStep == TypeOK /\ [Next]_vars => TypeOK'
<1> SUFFICES ASSUME TypeOK, [Next]_vars
             PROVE  TypeOK'
  OBVIOUS
<1>1. ASSUME NEW r \in Requests, Press(r)
      PROVE  TypeOK'
  <2>1. PICK f \in Forms : form' = [form EXCEPT ![r] = f]
    BY <1>1 DEF Press
  <2>2. f \in FormType
    BY AcceptanceAssumption
  <2>3. QED
    BY <1>1, <2>1, <2>2 DEF Press, TypeOK, server, registers, reading
<1>2. ASSUME NEW r \in Requests, FetchPage(r)
      PROVE  TypeOK'
  <2> DEFINE items == ServerPage(page[r], PageSize(r))
             n == Cardinality(items)
  <2>1. n \in Nat /\ got[r] + n \in 0 .. MaxRows
    BY PageFits
  <2>2. /\ rows' = [rows EXCEPT ![r] =
                      [l \in Lines |-> IF l \in items THEN pending[l] ELSE @[l]]]
        /\ got' = [got EXCEPT ![r] = @ + n]
    BY <1>2 DEF FetchPage
  <2>3. rows' \in [Requests -> [Lines -> Nat]]
    BY <2>2 DEF TypeOK
  <2>4. got' \in [Requests -> 0 .. MaxRows]
    BY <2>1, <2>2 DEF TypeOK
  <2>5. page' \in [Requests -> 1 .. MaxPages + 1]
    <3>1. CASE n > 0 /\ ~LastPage(r, n)
      <4>1. page' = [page EXCEPT ![r] = @ + 1] /\ ~(page[r] + 1 > MaxPages)
        BY <1>2, <3>1 DEF FetchPage, LastPage
      <4>2. page[r] + 1 \in 1 .. MaxPages + 1
        BY <4>1, AcceptanceAssumption DEF TypeOK
      <4>3. QED
        BY <4>1, <4>2 DEF TypeOK
    <3>2. CASE ~(n > 0 /\ ~LastPage(r, n))
      BY <1>2, <3>2 DEF FetchPage, TypeOK
    <3>3. QED
      BY <3>1, <3>2
  <2>6. /\ pc' \in [Requests -> {"new", "fetching", "checking", "sent", "done"}]
        /\ outcome' \in [Requests -> Outcomes]
    <3>1. \/ UNCHANGED <<pc, outcome>>
          \/ Finish(r, "settled")
          \/ pc' = [pc EXCEPT ![r] = "checking"] /\ UNCHANGED outcome
      BY <1>2 DEF FetchPage
    <3>2. QED
      BY <3>1 DEF Finish, TypeOK, Outcomes
  <2>7. QED
    BY <1>2, <2>3, <2>4, <2>5, <2>6 DEF FetchPage, TypeOK, server, registers
<1>3. ASSUME NEW r \in Requests, FetchFails(r)
      PROVE  TypeOK'
  BY <1>3 DEF FetchFails, Finish, TypeOK, Outcomes, server, registers, reading
<1>4. ASSUME NEW r \in Requests, Check(r)
      PROVE  TypeOK'
  <2>1. /\ UNCHANGED <<pending, stock, lost, booked, answer, form, rows, got, page, raced>>
        /\ wire' \in {wire, wire \cup {r}}
        /\ \/ pc' = [pc EXCEPT ![r] = "sent"] /\ UNCHANGED outcome
           \/ Finish(r, "invalid")
    BY <1>4 DEF Check, Sends, registers, reading
  <2>2. pc' \in [Requests -> {"new", "fetching", "checking", "sent", "done"}]
    BY <2>1 DEF Finish, TypeOK
  <2>3. outcome' \in [Requests -> Outcomes] /\ wire' \subseteq Requests
    BY <2>1 DEF Finish, TypeOK, Outcomes
  <2>4. QED
    BY <2>1, <2>2, <2>3 DEF TypeOK
<1>5. ASSUME NEW r \in Requests, Receive(r)
      PROVE  TypeOK'
  <2>1. answer[r] \in Outcomes
    BY DEF TypeOK, Outcomes
  <2>2. QED
    BY <1>5, <2>1 DEF Receive, Finish, TypeOK, server, registers, reading
<1>6. ASSUME NEW r \in Requests, TimeOut(r)
      PROVE  TypeOK'
  BY <1>6 DEF TimeOut, Finish, TypeOK, Outcomes, server, registers, reading
<1>7. ASSUME NEW r \in Requests, Book(r)
      PROVE  TypeOK'
  <2>1. pending \in [Lines -> Nat] /\ Fits(r, pending)
    BY <1>7 DEF Book, TypeOK
  <2>2. ASSUME NEW l \in Lines
        PROVE  /\ pending[l] - Acc(r, l) - Lst(r, l) \in Nat
               /\ stock[l] + Acc(r, l) \in Nat
               /\ lost[l] + Lst(r, l) \in Nat
    <3>1. Acc(r, l) \in Int /\ Lst(r, l) \in Int
      BY QtyType
    <3>2. Acc(r, l) >= 0 /\ Lst(r, l) >= 0 /\ Acc(r, l) + Lst(r, l) <= pending[l]
      BY <2>1, FitsAllLines
    <3>3. pending[l] \in Nat /\ stock[l] \in Nat /\ lost[l] \in Nat
      BY DEF TypeOK
    <3>4. QED
      BY <3>1, <3>2, <3>3
  <2>3. /\ pending' \in [Lines -> Nat]
        /\ stock' \in [Lines -> Nat]
        /\ lost' \in [Lines -> Nat]
    BY <1>7, <2>2 DEF Book, Move
  <2>4. /\ booked' \subseteq Requests
        /\ wire' \subseteq Requests
        /\ answer' \in [Requests -> {"none", "success"} \cup Refusals]
        /\ UNCHANGED <<pc, form, rows, got, page, outcome>>
    BY <1>7 DEF Book, Move, Handled, TypeOK, reading
  <2>5. raced' \in [Requests -> BOOLEAN]
    <3>1. raced' = [s \in Requests |-> raced[s] \/ (s # r /\ got[s] > 0)]
      BY <1>7 DEF Book, Move
    <3>2. ASSUME NEW s \in Requests
          PROVE  (raced[s] \/ (s # r /\ got[s] > 0)) \in BOOLEAN
      BY ZenonT(20)
    <3>3. QED
      BY <3>1, <3>2
  <2>6. QED
    BY <2>3, <2>4, <2>5 DEF TypeOK
<1>8. ASSUME NEW r \in Requests, Refuse(r)
      PROVE  TypeOK'
  <2>1. PICK reply \in Refusals : Handled(r, reply)
    BY <1>8 DEF Refuse, Refusals
  <2>2. QED
    BY <1>8, <2>1 DEF Refuse, Handled, TypeOK, registers, reading
<1>9. ASSUME NEW r \in Requests, LoseCall(r)
      PROVE  TypeOK'
  BY <1>9 DEF LoseCall, TypeOK, registers, reading
<1>10. CASE UNCHANGED vars
  BY <1>10 DEF vars, TypeOK, registers
<1>11. QED
  BY <1>1, <1>2, <1>3, <1>4, <1>5, <1>6, <1>7, <1>8, <1>9, <1>10 DEF Next, Handler

\* Every reachable state is of its type: in particular no register ever goes below zero,
\* and no request collects more than MaxRows rows or asks for a page past MaxPages.
THEOREM TypeCorrect == Spec => []TypeOK
BY TypeInit, TypeStep, PTL DEF Spec

-----------------------------------------------------------------------------
(* The inductive invariant. *)

\* How the stages of a request, its call and its message go together.  An answer and an
\* open call exclude each other, and a call is only sent for a form that fitted.
StageInv ==
  \A r \in Requests :
    /\ pc[r] \in {"new", "fetching", "checking"} => answer[r] = "none" /\ r \notin wire
    /\ pc[r] # "done" => outcome[r] = "none"
    /\ r \in wire => answer[r] = "none" /\ Valid(r) /\ outcome[r] \in {"none", "unavailable"}
    /\ r \in booked <=> answer[r] = "success"
    /\ outcome[r] = "success" => answer[r] = "success"
    /\ outcome[r] \in Refusals => answer[r] = outcome[r]
    /\ outcome[r] \in {"settled", "invalid"} => answer[r] = "none" /\ r \notin wire

\* What a request has read is still there, unless another request was booked since.
ReadInv ==
  \A r \in Requests :
    /\ got[r] = 0 => page[r] = 1 /\ \A l \in Lines : rows[r][l] = 0
    /\ ~raced[r] /\ r \notin booked => \A l \in Lines : rows[r][l] <= pending[l]

\* "Already settled" and "refused as too much" are said with reason.
VerdictInv ==
  \A r \in Requests :
    /\ outcome[r] = "settled" => PendingLines = {}
    /\ answer[r] = "conflict" => raced[r]

IInv == TypeOK /\ StageInv /\ ReadInv /\ VerdictInv

\* An empty first page means that nothing is pending.
LEMMA EmptyFirstPage ==
  ASSUME NEW size \in Nat \ {0}, ServerPage(1, size) = {}
  PROVE  PendingLines = {}
<1> SUFFICES ASSUME PendingLines # {}
             PROVE  FALSE
  OBVIOUS
<1>1. PendingLines \subseteq Nat /\ IsFiniteSet(PendingLines)
  BY AcceptanceAssumption, FS_Subset DEF PendingLines
<1>2. PICK l \in PendingLines : \A m \in PendingLines : <<m, l>> \notin OpToRel(<, Nat)
  BY <1>1, NatLessThanWellFounded, WFMin
<1>3. \A m \in PendingLines : ~(m < l)
  BY <1>1, <1>2 DEF OpToRel
<1>4. {m \in PendingLines : m <= l} = {l}
  <2>1. l \in Nat /\ l <= l
    BY <1>1
  <2>2. ASSUME NEW m \in PendingLines, m <= l
        PROVE  m = l
    <3>1. m \in Nat /\ m <= l /\ ~(m < l)
      BY <1>1, <1>3, <2>2
    <3>2. QED
      BY <2>1, <3>1
  <2>3. QED
    BY <2>1, <2>2
<1>5. Rank(l) = 1
  BY <1>4, FS_Singleton DEF Rank
<1>6. l \in ServerPage(1, size)
  BY <1>5 DEF ServerPage
<1>7. QED
  BY <1>6

\* Booking takes from every line, and more than nothing from one of them.
LEMMA BookMoves ==
  ASSUME TypeOK, NEW r \in Requests, Book(r)
  PROVE  /\ \A l \in Lines : /\ pending'[l] \in Nat /\ pending'[l] <= pending[l]
                             /\ stock'[l] \in Nat /\ stock'[l] >= stock[l]
                             /\ lost'[l] \in Nat /\ lost'[l] >= lost[l]
                             /\ pending'[l] + stock'[l] + lost'[l]
                                  = pending[l] + stock[l] + lost[l]
         /\ \E l \in Lines : pending'[l] < pending[l]
<1> USE DEF Book, Move
<1>1. ASSUME NEW l \in Lines
      PROVE  /\ pending[l] \in Nat /\ stock[l] \in Nat /\ lost[l] \in Nat
             /\ Acc(r, l) \in Int /\ Acc(r, l) >= 0
             /\ Lst(r, l) \in Int /\ Lst(r, l) >= 0
             /\ Acc(r, l) + Lst(r, l) <= pending[l]
             /\ pending'[l] = pending[l] - Acc(r, l) - Lst(r, l)
             /\ stock'[l] = stock[l] + Acc(r, l)
             /\ lost'[l] = lost[l] + Lst(r, l)
  <2>1. pending \in [Lines -> Nat] /\ stock[l] \in Nat /\ lost[l] \in Nat
    BY DEF TypeOK
  <2>2. Acc(r, l) >= 0 /\ Lst(r, l) >= 0 /\ Acc(r, l) + Lst(r, l) <= pending[l]
    BY <2>1, FitsAllLines
  <2>3. QED
    BY <2>1, <2>2, QtyType
<1>2. PICK l \in Lines : Acc(r, l) # 0 \/ Lst(r, l) # 0
  BY DEF Posted
<1>3. pending'[l] < pending[l]
  <2>1. /\ pending[l] \in Nat /\ Acc(r, l) \in Nat /\ Lst(r, l) \in Nat
        /\ pending'[l] = pending[l] - Acc(r, l) - Lst(r, l)
    BY <1>1
  <2>2. QED
    BY <1>2, <2>1
<1>4. ASSUME NEW k \in Lines
      PROVE  /\ pending'[k] \in Nat /\ pending'[k] <= pending[k]
             /\ stock'[k] \in Nat /\ stock'[k] >= stock[k]
             /\ lost'[k] \in Nat /\ lost'[k] >= lost[k]
             /\ pending'[k] + stock'[k] + lost'[k] = pending[k] + stock[k] + lost[k]
  BY <1>1
<1>5. QED
  BY <1>3, <1>4

LEMMA StageInit == Init => StageInv /\ ReadInv /\ VerdictInv
<1> SUFFICES ASSUME Init
             PROVE  StageInv /\ ReadInv /\ VerdictInv
  OBVIOUS
<1>1. StageInv
  BY DEF Init, StageInv, Refusals
<1>2. ReadInv
  <2>1. \A l \in Lines : pending[l] \in Nat
    BY AcceptanceAssumption DEF Init
  <2>2. QED
    BY <2>1 DEF Init, ReadInv
<1>3. VerdictInv
  BY DEF Init, VerdictInv
<1>4. QED
  BY <1>1, <1>2, <1>3

LEMMA StageStep == TypeOK /\ StageInv /\ [Next]_vars => StageInv'
<1> SUFFICES ASSUME TypeOK, StageInv, [Next]_vars
             PROVE  StageInv'
  OBVIOUS
<1> USE DEF Refusals
<1>1. ASSUME NEW r \in Requests, Press(r)
      PROVE  StageInv'
  <2>1. \A s \in Requests : s # r => form'[s] = form[s]
    BY <1>1 DEF Press, TypeOK
  <2>2. r \notin wire
    BY <1>1 DEF Press, StageInv
  <2>3. \A s \in wire : Valid(s)' <=> Valid(s)
    BY <1>1, <2>1, <2>2 DEF Press, Valid, Fits, Posted, Acc, Lst, reading, TypeOK
  <2>4. QED
    BY <1>1, <2>2, <2>3 DEF Press, StageInv, TypeOK, server, registers
<1>2. ASSUME NEW r \in Requests, FetchPage(r)
      PROVE  StageInv'
  <2>1. /\ \A s \in Requests : s # r => rows'[s] = rows[s]
        /\ UNCHANGED <<form, booked, wire, answer>>
    BY <1>2 DEF FetchPage, TypeOK, server
  <2>2. r \notin wire /\ answer[r] = "none" /\ outcome[r] = "none"
    BY <1>2 DEF FetchPage, StageInv
  <2>3. \A s \in wire : Valid(s)' <=> Valid(s)
    BY <2>1, <2>2 DEF Valid, Fits, Posted, Acc, Lst, TypeOK
  <2>4. \/ UNCHANGED <<pc, outcome>>
        \/ Finish(r, "settled")
        \/ pc' = [pc EXCEPT ![r] = "checking"] /\ UNCHANGED outcome
    BY <1>2 DEF FetchPage
  <2>5. QED
    BY <2>1, <2>2, <2>3, <2>4 DEF Finish, StageInv, TypeOK
<1>3. ASSUME UNCHANGED <<form, rows, booked>>, wire' \subseteq wire
      PROVE  \A s \in wire : Valid(s)' <=> Valid(s)
  BY <1>3 DEF Valid, Fits, Posted, Acc, Lst
<1>4. ASSUME NEW r \in Requests, FetchFails(r)
      PROVE  StageInv'
  BY <1>3, <1>4 DEF FetchFails, Finish, StageInv, TypeOK, server, reading
<1>5. ASSUME NEW r \in Requests, Check(r)
      PROVE  StageInv'
  <2>1. r \notin wire /\ r \notin booked /\ answer[r] = "none" /\ outcome[r] = "none"
    BY <1>5 DEF Check, Sends, StageInv
  <2>2. \A s \in Requests : Valid(s)' <=> Valid(s)
    BY <1>5 DEF Check, Sends, Valid, Fits, Posted, Acc, Lst, reading
  <2>3. QED
    BY <1>5, <2>1, <2>2 DEF Check, Sends, Finish, StageInv, TypeOK
<1>6. ASSUME NEW r \in Requests, Receive(r)
      PROVE  StageInv'
  <2>1. r \notin wire /\ answer[r] \in {"success"} \cup Refusals
    BY <1>6 DEF Receive, StageInv, TypeOK
  <2>2. UNCHANGED <<form, rows, booked, wire, answer>>
    BY <1>6 DEF Receive, server, reading
  <2>3. QED
    BY <1>3, <1>6, <2>1, <2>2 DEF Receive, Finish, StageInv, TypeOK
<1>7. ASSUME NEW r \in Requests, TimeOut(r)
      PROVE  StageInv'
  BY <1>3, <1>7 DEF TimeOut, Finish, StageInv, TypeOK, server, reading
<1>8. ASSUME NEW r \in Requests, Book(r)
      PROVE  StageInv'
  <2>1. /\ r \in wire /\ wire' = wire \ {r} /\ booked' = booked \cup {r}
        /\ answer' = [answer EXCEPT ![r] = "success"]
        /\ UNCHANGED <<pc, form, rows, outcome>>
    BY <1>8 DEF Book, Move, Handled, reading
  <2>2. \A s \in Requests : Valid(s)' <=> Valid(s)
    BY <2>1 DEF Valid, Fits, Posted, Acc, Lst
  <2>3. QED
    BY <2>1, <2>2 DEF StageInv, TypeOK
<1>9. ASSUME NEW r \in Requests, Refuse(r)
      PROVE  StageInv'
  <2>1. PICK reply \in Refusals : Handled(r, reply)
    BY <1>9 DEF Refuse
  <2>2. /\ r \in wire /\ wire' = wire \ {r} /\ UNCHANGED booked
        /\ answer' = [answer EXCEPT ![r] = reply]
        /\ UNCHANGED <<pc, form, rows, outcome>>
    BY <1>9, <2>1 DEF Refuse, Handled, reading
  <2>3. \A s \in Requests : Valid(s)' <=> Valid(s)
    BY <2>2 DEF Valid, Fits, Posted, Acc, Lst
  <2>4. QED
    BY <2>2, <2>3 DEF StageInv, TypeOK
<1>10. ASSUME NEW r \in Requests, LoseCall(r)
      PROVE  StageInv'
  BY <1>3, <1>10 DEF LoseCall, StageInv, TypeOK, reading
<1>11. CASE UNCHANGED vars
  BY <1>3, <1>11 DEF vars, StageInv
<1>12. QED
  BY <1>1, <1>2, <1>4, <1>5, <1>6, <1>7, <1>8, <1>9, <1>10, <1>11 DEF Next, Handler

LEMMA ReadStep == TypeOK /\ StageInv /\ ReadInv /\ [Next]_vars => ReadInv'
<1> SUFFICES ASSUME TypeOK, StageInv, ReadInv, [Next]_vars
             PROVE  ReadInv'
  OBVIOUS
<1>1. ASSUME UNCHANGED <<rows, got, page, raced, booked, pending>>
      PROVE  ReadInv'
  BY <1>1 DEF ReadInv
<1>2. ASSUME NEW r \in Requests, Press(r) \/ FetchFails(r) \/ Check(r) \/ Receive(r)
                                   \/ TimeOut(r) \/ Refuse(r) \/ LoseCall(r)
      PROVE  ReadInv'
  <2>1. UNCHANGED <<rows, got, page, raced, booked, pending>>
    BY <1>2 DEF Press, FetchFails, Check, Sends, Receive, TimeOut, Refuse, LoseCall, Handled,
                server, registers, reading
  <2>2. QED
    BY <1>1, <2>1
<1>3. ASSUME NEW r \in Requests, FetchPage(r)
      PROVE  ReadInv'
  <2> DEFINE items == ServerPage(page[r], PageSize(r))
             n == Cardinality(items)
  <2>1. n \in Nat /\ got[r] + n \in 0 .. MaxRows /\ items \subseteq Lines
    BY PageFits
  <2>2. /\ rows' = [rows EXCEPT ![r] =
                      [l \in Lines |-> IF l \in items THEN pending[l] ELSE @[l]]]
        /\ got' = [got EXCEPT ![r] = @ + n]
        /\ UNCHANGED <<raced, booked, pending>>
    BY <1>3 DEF FetchPage, server, registers
  <2>3. /\ \A s \in Requests \ {r} : rows'[s] = rows[s] /\ got'[s] = got[s]
        /\ got'[r] = got[r] + n
        /\ \A l \in Lines : rows'[r][l] = IF l \in items THEN pending[l] ELSE rows[r][l]
    BY <2>2 DEF TypeOK
  <2>4. \A s \in Requests \ {r} : page'[s] = page[s]
    BY <1>3 DEF FetchPage, TypeOK
  <2>5. ASSUME got'[r] = 0
        PROVE  page'[r] = 1 /\ \A l \in Lines : rows'[r][l] = 0
    <3>1. n = 0 /\ got[r] = 0
      BY <2>1, <2>3, <2>5 DEF TypeOK
    <3>2. page'[r] = page[r]
      BY <1>3, <3>1 DEF FetchPage
    <3>3. items = {}
      <4>1. IsFiniteSet(items)
        BY <2>1, AcceptanceAssumption, FS_Subset
      <4>2. QED
        BY <3>1, <4>1, FS_EmptySet
    <3>4. QED
      BY <2>3, <3>1, <3>2, <3>3 DEF ReadInv
  <2>6. \A l \in Lines : pending[l] <= pending[l]
    BY DEF TypeOK
  <2>7. ASSUME ~raced[r], r \notin booked, NEW l \in Lines
        PROVE  rows'[r][l] <= pending[l]
    BY <2>3, <2>6, <2>7 DEF ReadInv
  <2>8. QED
    BY <2>2, <2>3, <2>4, <2>5, <2>7 DEF ReadInv
<1>4. ASSUME NEW r \in Requests, Book(r)
      PROVE  ReadInv'
  <2>1. /\ UNCHANGED <<rows, got, page>>
        /\ booked' = booked \cup {r}
        /\ raced' = [s \in Requests |-> raced[s] \/ (s # r /\ got[s] > 0)]
    BY <1>4 DEF Book, Move, Handled, reading
  <2>2. ASSUME NEW s \in Requests, ~raced'[s], s \notin booked', NEW l \in Lines
        PROVE  rows'[s][l] <= pending'[l]
    <3>1. s # r /\ ~(got[s] > 0) /\ got[s] \in Nat
      <4>1. s # r
        BY <2>1, <2>2
      <4>2. ~(raced[s] \/ (s # r /\ got[s] > 0))
        BY <2>1, <2>2, Zenon
      <4>3. got[s] \in Nat
        BY DEF TypeOK
      <4>4. QED
        BY <4>1, <4>2, <4>3
    <3>2. rows'[s][l] = 0
      BY <2>1, <3>1 DEF ReadInv
    <3>3. QED
      BY <1>4, <3>2, BookMoves
  <2>3. QED
    BY <2>1, <2>2 DEF ReadInv
<1>5. CASE UNCHANGED vars
  BY <1>1, <1>5 DEF vars, registers
<1>6. QED
  BY <1>2, <1>3, <1>4, <1>5 DEF Next, Handler

LEMMA VerdictStep == IInv /\ [Next]_vars => VerdictInv'
<1> SUFFICES ASSUME TypeOK, StageInv, ReadInv, VerdictInv, [Next]_vars
             PROVE  VerdictInv'
  BY DEF IInv
<1>1. ASSUME NEW r \in Requests, UNCHANGED <<pending, answer, raced>>,
             \A s \in Requests : outcome'[s] = "settled" => outcome[s] = "settled"
      PROVE  VerdictInv'
  BY <1>1 DEF VerdictInv, PendingLines
<1>2. ASSUME NEW r \in Requests, Press(r) \/ FetchFails(r) \/ Check(r) \/ TimeOut(r)
                                   \/ LoseCall(r)
      PROVE  VerdictInv'
  <2>1. UNCHANGED <<pending, answer, raced>>
    BY <1>2 DEF Press, FetchFails, Check, Sends, TimeOut, LoseCall, server, registers
  <2>2. \/ UNCHANGED outcome
        \/ outcome' = [outcome EXCEPT ![r] = "unavailable"]
        \/ outcome' = [outcome EXCEPT ![r] = "invalid"]
    BY <1>2 DEF Press, FetchFails, Check, Sends, TimeOut, LoseCall, Finish
  <2>3. \A s \in Requests : outcome'[s] = "settled" => outcome[s] = "settled"
    BY <2>2 DEF TypeOK
  <2>4. QED
    BY <1>1, <2>1, <2>3
<1>3. ASSUME NEW r \in Requests, Receive(r)
      PROVE  VerdictInv'
  <2>1. /\ UNCHANGED <<pending, answer, raced>>
        /\ outcome' = [outcome EXCEPT ![r] = answer[r]]
    BY <1>3 DEF Receive, Finish, server, registers
  <2>2. answer[r] # "settled"
    BY DEF TypeOK, Refusals
  <2>3. \A s \in Requests : outcome'[s] = "settled" => outcome[s] = "settled"
    BY <2>1, <2>2 DEF TypeOK
  <2>4. QED
    BY <1>1, <2>1, <2>3
<1>4. ASSUME NEW r \in Requests, FetchPage(r)
      PROVE  VerdictInv'
  <2> DEFINE items == ServerPage(page[r], PageSize(r))
             n == Cardinality(items)
  <2>1. UNCHANGED <<pending, answer, raced>>
    BY <1>4 DEF FetchPage, server, registers
  <2>2. CASE UNCHANGED outcome
    BY <1>1, <2>1, <2>2
  <2>3. CASE ~UNCHANGED outcome
    <3>1. got[r] + n = 0 /\ outcome' = [outcome EXCEPT ![r] = "settled"]
      BY <1>4, <2>3 DEF FetchPage, Finish
    <3>2. n \in Nat /\ items \subseteq Lines /\ IsFiniteSet(items)
      BY PageFits, AcceptanceAssumption, FS_Subset
    <3>3. got[r] = 0 /\ n = 0
      BY <3>1, <3>2 DEF TypeOK
    <3>4. page[r] = 1 /\ items = {}
      BY <3>2, <3>3, FS_EmptySet DEF ReadInv
    <3>5. PageSize(r) \in Nat \ {0}
      BY <3>3, AcceptanceAssumption DEF PageSize
    <3>6. PendingLines = {}
      BY <3>4, <3>5, EmptyFirstPage
    <3>7. QED
      BY <2>1, <3>6 DEF VerdictInv, PendingLines
  <2>4. QED
    BY <2>2, <2>3
<1>5. ASSUME NEW r \in Requests, Book(r)
      PROVE  VerdictInv'
  <2>1. /\ UNCHANGED outcome
        /\ answer' = [answer EXCEPT ![r] = "success"]
        /\ raced' = [s \in Requests |-> raced[s] \/ (s # r /\ got[s] > 0)]
    BY <1>5 DEF Book, Move, Handled
  <2>2. PendingLines = {} => PendingLines' = {}
    <3>1. ASSUME NEW l \in Lines, pending'[l] > 0
          PROVE  pending[l] > 0
      <4>1. /\ pending'[l] \in Nat /\ pending'[l] <= pending[l]
            /\ pending[l] \in Nat
        BY <1>5, BookMoves DEF TypeOK
      <4>2. QED
        BY <3>1, <4>1
    <3>2. QED
      BY <3>1 DEF PendingLines
  <2>3. QED
    BY <2>1, <2>2 DEF VerdictInv, TypeOK
<1>6. ASSUME NEW r \in Requests, Refuse(r)
      PROVE  VerdictInv'
  <2>1. UNCHANGED <<pending, raced, outcome>>
    BY <1>6 DEF Refuse, Handled, registers
  <2>2. PICK reply \in Refusals : /\ answer' = [answer EXCEPT ![r] = reply]
                                  /\ reply = "conflict" => ~Fits(r, pending)
                                  /\ r \in wire
    BY <1>6 DEF Refuse, Handled, Refusals
  <2>3. ASSUME ~Fits(r, pending)
        PROVE  raced[r]
    <3>1. Fits(r, rows[r]) /\ r \notin booked
      BY <2>2 DEF StageInv, Valid
    <3>2. SUFFICES ASSUME ~raced[r]
                   PROVE  Fits(r, pending)
      BY <2>3 DEF TypeOK
    <3>3. rows[r] \in [Lines -> Nat] /\ pending \in [Lines -> Nat]
      BY DEF TypeOK
    <3>4. ASSUME NEW l \in Lines
          PROVE  Acc(r, l) >= 0 /\ Lst(r, l) >= 0 /\ Acc(r, l) + Lst(r, l) <= pending[l]
      <4>1. /\ Acc(r, l) >= 0 /\ Lst(r, l) >= 0
            /\ Acc(r, l) + Lst(r, l) <= rows[r][l]
        BY <3>1, <3>3, FitsAllLines
      <4>2. rows[r][l] <= pending[l]
        BY <3>1, <3>2 DEF ReadInv
      <4>3. Acc(r, l) \in Int /\ Lst(r, l) \in Int
        BY QtyType
      <4>4. rows[r][l] \in Nat /\ pending[l] \in Nat
        BY <3>3
      <4>5. QED
        BY <4>1, <4>2, <4>3, <4>4
    <3>5. QED
      BY <3>3, <3>4, FitsAllLines
  <2>4. QED
    BY <2>1, <2>2, <2>3 DEF VerdictInv, PendingLines, TypeOK
<1>7. CASE UNCHANGED vars
  BY <1>7 DEF vars, registers, VerdictInv, PendingLines
<1>8. QED
  BY <1>2, <1>3, <1>4, <1>5, <1>6, <1>7 DEF Next, Handler

\* The inductive invariant holds in every reachable state.
THEOREM Invariant == Spec => []IInv
<1>1. Init => IInv
  BY TypeInit, StageInit DEF IInv
<1>2. IInv /\ [Next]_vars => IInv'
  BY TypeStep, StageStep, ReadStep, VerdictStep DEF IInv
<1>3. QED
  BY <1>1, <1>2, PTL DEF Spec

-----------------------------------------------------------------------------
(* What a request has read, page by page. *)

LEMMA PendingFinite == PendingLines \subseteq Nat /\ IsFiniteSet(PendingLines)
BY AcceptanceAssumption, FS_Subset DEF PendingLines

\* Ranks are the numbers from 1 to the number of pending lines.
LEMMA RankIsPlace ==
  /\ \A l \in PendingLines : Rank(l) \in 1 .. Cardinality(PendingLines)
  /\ \A k \in 1 .. Cardinality(PendingLines) : \E l \in PendingLines : Rank(l) = k
<1> DEFINE f == [l \in PendingLines |-> Rank(l)]
           N == 1 .. Cardinality(PendingLines)
<1>1. ASSUME NEW l \in PendingLines
      PROVE  Rank(l) \in N
  <2> DEFINE T == {m \in PendingLines : m <= l}
  <2>1. T \subseteq PendingLines /\ l \in T
    BY PendingFinite
  <2>2. /\ IsFiniteSet(T) /\ Cardinality(T) <= Cardinality(PendingLines)
        /\ Cardinality(T) \in Nat /\ Cardinality(PendingLines) \in Nat
    BY <2>1, PendingFinite, FS_Subset, FS_CardinalityType
  <2>3. Cardinality(T) # 0
    BY <2>1, <2>2, FS_EmptySet
  <2>4. QED
    BY <2>2, <2>3 DEF Rank
<1>2. ASSUME NEW l \in PendingLines, NEW m \in PendingLines, f[l] = f[m]
      PROVE  l = m
  <2>1. Rank(l) = Rank(m) /\ Rank(l) \in Int
    BY <1>1, <1>2
  <2>2. ~(l < m) /\ ~(m < l)
    BY <2>1, RankStrict
  <2>3. QED
    BY <2>2, PendingFinite
<1>3. f \in Injection(PendingLines, N)
  BY <1>1, <1>2 DEF Injection, IsInjective
<1>4. IsFiniteSet(N) /\ Cardinality(N) = Cardinality(PendingLines)
  BY PendingFinite, FS_CardinalityType, FS_Interval
<1>5. f \in Surjection(PendingLines, N)
  BY <1>3, <1>4, PendingFinite, FS_Injection
<1>6. \A k \in N : \E l \in PendingLines : Rank(l) = k
  BY <1>5 DEF Surjection
<1>7. QED
  BY <1>1, <1>6

\* A page that is not the last is full.
LEMMA FullPage ==
  ASSUME NEW p \in Nat \ {0}, NEW size \in Nat, p * size <= Cardinality(PendingLines)
  PROVE  Cardinality(ServerPage(p, size)) = size
<1> DEFINE S == ServerPage(p, size)
           a == (p - 1) * size
           f == [l \in S |-> Rank(l)]
           N == (a + 1) .. (a + size)
<1>1. a \in Nat /\ p * size = a + size
  OBVIOUS
<1>2. Cardinality(PendingLines) \in Nat /\ a + size <= Cardinality(PendingLines)
  BY <1>1, PendingFinite, FS_CardinalityType
<1>3. \A l : l \in S <=> l \in PendingLines /\ a < Rank(l) /\ Rank(l) <= a + size
  BY <1>1 DEF ServerPage
<1> HIDE DEF a, S
<1>4. f \in [S -> N]
  BY <1>1, <1>2, <1>3, RankIsPlace
<1>5. \A k \in N : \E l \in S : f[l] = k
  <2> SUFFICES ASSUME NEW k \in N
               PROVE  \E l \in S : f[l] = k
    OBVIOUS
  <2>1. k \in 1 .. Cardinality(PendingLines)
    BY <1>1, <1>2
  <2>2. PICK l \in PendingLines : Rank(l) = k
    BY <2>1, RankIsPlace
  <2>3. l \in S
    BY <1>1, <1>3, <2>2
  <2>4. QED
    BY <2>2, <2>3
<1>6. f \in Surjection(S, N)
  BY <1>4, <1>5 DEF Surjection
<1>7. IsFiniteSet(S) /\ Cardinality(S) \in 0 .. size
  BY PageBound DEF S
<1>8. IsFiniteSet(N) /\ Cardinality(N) = size
  BY <1>1, FS_Interval
<1>9. size <= Cardinality(S)
  BY <1>6, <1>7, <1>8, FS_Surjection
<1>10. QED
  BY <1>7, <1>9 DEF S

\* Below a multiple of c there is room for another c.
LEMMA RoomBelowMultiple ==
  ASSUME NEW p \in Nat, NEW k \in Nat, NEW c \in Nat \ {0}, p * c < k * c
  PROVE  p * c + c <= k * c
<1>1. CASE k <= p
  <2>1. PICK d \in Nat : p = k + d
    BY <1>1, p - k \in Nat
  <2>2. p * c = k * c + d * c /\ d * c \in Nat /\ k * c \in Nat
    BY <2>1
  <2>3. QED
    BY <2>2
<1>2. CASE p < k
  <2>1. PICK d \in Nat : k = p + 1 + d
    BY <1>2, k - p - 1 \in Nat
  <2>2. k * c = p * c + c + d * c /\ d * c \in Nat /\ p * c \in Nat
    BY <2>1
  <2>3. QED
    BY <2>2
<1>3. QED
  BY <1>1, <1>2

LEMMA IsMultiple ==
  ASSUME NEW a \in Nat, NEW c \in Nat \ {0}, a % c = 0
  PROVE  \E k \in Nat : a = k * c
<1> DEFINE k == a \div c
<1>1. a = k * c + (a % c) /\ k \in Nat
  OBVIOUS
<1> HIDE DEF k
<1>2. a = k * c
  BY <1>1
<1>3. QED
  BY <1>1, <1>2

LEMMA RoomForPage ==
  ASSUME NEW p \in Nat, p * PageCap < MaxRows
  PROVE  p * PageCap + PageCap <= MaxRows
<1>1. PageCap \in Nat \ {0} /\ MaxRows \in Nat /\ MaxRows % PageCap = 0
  BY AcceptanceAssumption
<1>2. PICK k \in Nat : MaxRows = k * PageCap
  BY <1>1, IsMultiple
<1>3. QED
  BY <1>1, <1>2, RoomBelowMultiple

\* Request r holds the first n pending lines, as they are, and nothing else.
ReadUpTo(r, n) ==
  \A l \in Lines : rows[r][l] = IF l \in PendingLines /\ Rank(l) <= n THEN pending[l] ELSE 0

\* A request that no booking disturbed holds what its pages so far cover: the loop has
\* missed no row and read none twice.
ExactInv ==
  \A r \in Requests :
    \/ raced[r]
    \/ /\ pc[r] \in {"new", "fetching"} =>
            /\ got[r] = (page[r] - 1) * PageCap /\ got[r] < MaxRows
            /\ ReadUpTo(r, got[r])
       /\ pc[r] = "checking" => got[r] > 0 /\ ReadUpTo(r, MaxRows)

LEMMA NothingRead ==
  ASSUME NEW r \in Requests, \A l \in Lines : rows[r][l] = 0
  PROVE  ReadUpTo(r, 0)
BY RankIsPlace, PendingFinite, FS_CardinalityType DEF ReadUpTo, PendingLines

\* One more page, and what the stop of the loop says about it.
LEMMA ReadPage ==
  ASSUME TypeOK, NEW r \in Requests, FetchPage(r),
         got[r] = (page[r] - 1) * PageCap, got[r] < MaxRows, ReadUpTo(r, got[r])
  PROVE  /\ pc'[r] = "fetching" => /\ got'[r] = (page'[r] - 1) * PageCap /\ got'[r] < MaxRows
                                   /\ ReadUpTo(r, got[r])'
         /\ pc'[r] = "checking" => got'[r] > 0 /\ ReadUpTo(r, MaxRows)'
<1> got[r] + PageCap \in Nat
  BY AcceptanceAssumption DEF TypeOK
<1> PICK m \in Nat : m = got[r] + PageCap
  OBVIOUS
<1> DEFINE p == page[r]
           items == ServerPage(p, PageCap)
           n == Cardinality(items)
           C == Cardinality(PendingLines)
<1>1. /\ p \in Nat \ {0} /\ got[r] \in Nat /\ PageCap \in Nat \ {0} /\ MaxRows \in Nat
      /\ MaxPages \in Nat /\ m = got[r] + PageCap
  BY AcceptanceAssumption DEF TypeOK
<1>P. p * PageCap = m
  <2>1. p * PageCap = (p - 1) * PageCap + PageCap
    BY <1>1
  <2>2. QED
    BY <1>1, <2>1
<1>2. m <= MaxRows
  BY <1>1, RoomForPage, p - 1 \in Nat
<1>3. PageSize(r) = PageCap
  BY <1>1, <1>2 DEF PageSize
<1>4. n \in 0 .. PageCap /\ C \in Nat
  BY <1>1, PageBound, PendingFinite, FS_CardinalityType
<1>5. \A l : l \in items <=> l \in PendingLines /\ got[r] < Rank(l) /\ Rank(l) <= m
  BY <1>1, <1>P DEF ServerPage
<1>6. /\ pc[r] = "fetching" /\ UNCHANGED pending
      /\ rows' = [rows EXCEPT ![r] =
                    [l \in Lines |-> IF l \in items THEN pending[l] ELSE @[l]]]
      /\ got' = [got EXCEPT ![r] = @ + n]
      /\ \/ /\ n > 0 /\ ~LastPage(r, n) /\ page' = [page EXCEPT ![r] = @ + 1]
            /\ pc' = pc
         \/ /\ ~(n > 0 /\ ~LastPage(r, n))
            /\ \/ pc' = [pc EXCEPT ![r] = "done"]
               \/ pc' = [pc EXCEPT ![r] = "checking"] /\ got[r] + n # 0
  BY <1>3 DEF FetchPage, Finish, server, registers
<1> HIDE DEF items, n, C
<1>7. ReadUpTo(r, m)'
  <2> SUFFICES ASSUME NEW l \in Lines
               PROVE  rows'[r][l] = IF l \in PendingLines /\ Rank(l) <= m
                                    THEN pending[l] ELSE 0
    BY <1>6 DEF ReadUpTo, PendingLines, Rank
  <2>1. rows'[r][l] = IF l \in items THEN pending[l] ELSE rows[r][l]
    BY <1>6 DEF TypeOK
  <2>2. rows[r][l] = IF l \in PendingLines /\ Rank(l) <= got[r] THEN pending[l] ELSE 0
    BY DEF ReadUpTo
  <2>3. CASE l \in PendingLines
    <3>1. Rank(l) \in Int
      BY <1>4, <2>3, RankIsPlace DEF C
    <3>2. QED
      BY <1>1, <1>5, <2>1, <2>2, <2>3, <3>1
  <2>4. CASE l \notin PendingLines
    BY <1>5, <2>1, <2>2, <2>4
  <2>5. QED
    BY <2>3, <2>4
<1>8. ASSUME C <= got[r] + n
      PROVE  \A l \in PendingLines : Rank(l) <= m
  BY <1>1, <1>4, <1>8, RankIsPlace DEF C
<1>9. n < PageCap => C <= got[r] + n
  <2> SUFFICES ASSUME n < PageCap
               PROVE  C <= got[r] + n
    OBVIOUS
  <2>1. ~(m <= C)
    BY <1>1, <1>P, <1>4, FullPage DEF n, items, C
  <2>2. CASE C <= got[r]
    BY <1>1, <1>4, <2>2
  <2>3. CASE C > got[r]
    \* The rows from got[r] + 1 to C are on the page.
    <3> DEFINE N == (got[r] + 1) .. C
               f == [l \in items |-> Rank(l)]
    <3>1. \A l \in items : Rank(l) \in N
      BY <1>1, <1>4, <1>5, RankIsPlace DEF C
    <3>2. \A k \in N : \E l \in items : f[l] = k
      <4> SUFFICES ASSUME NEW k \in N
                   PROVE  \E l \in items : f[l] = k
        OBVIOUS
      <4>1. k \in 1 .. C /\ got[r] < k /\ k <= m
        BY <1>1, <1>4, <2>1
      <4>2. PICK l \in PendingLines : Rank(l) = k
        BY <4>1, RankIsPlace DEF C
      <4>3. QED
        BY <1>5, <4>1, <4>2
    <3>3. f \in Surjection(items, N)
      BY <3>1, <3>2 DEF Surjection
    <3>4. IsFiniteSet(items)
      BY <1>1, PageBound DEF items
    <3>5. IsFiniteSet(N) /\ Cardinality(N) = C - (got[r] + 1) + 1
      <4>1. got[r] + 1 \in Int /\ C \in Int /\ ~(got[r] + 1 > C)
        BY <1>1, <1>4, <2>3
      <4>2. QED
        BY <4>1, FS_Interval
    <3>6. Cardinality(N) <= n
      BY <3>3, <3>4, <3>5, FS_Surjection DEF n
    <3> HIDE DEF N
    <3>7. C - (got[r] + 1) + 1 <= n
      BY <3>5, <3>6
    <3>8. QED
      BY <1>1, <1>4, <3>7
  <2>4. QED
    BY <1>1, <1>4, <2>2, <2>3
<1>10. ASSUME pc'[r] = "fetching"
       PROVE  /\ got'[r] = (page'[r] - 1) * PageCap /\ got'[r] < MaxRows
              /\ got'[r] = m /\ ReadUpTo(r, got[r])'
  <2>1. /\ ~LastPage(r, n) /\ page'[r] = p + 1 /\ got'[r] = got[r] + n
    BY <1>6, <1>10 DEF TypeOK
  <2>2. ~(got[r] + n >= C) /\ ~(got[r] + n >= MaxRows)
    BY <2>1 DEF LastPage, C
  <2>3. n = PageCap
    BY <1>1, <1>4, <1>9, <2>2
  <2>4. (p + 1) - 1 = p
    BY <1>1
  <2>5. got'[r] = m
    BY <1>1, <2>1, <2>3
  <2>6. got'[r] = (page'[r] - 1) * PageCap /\ got'[r] < MaxRows
    <3>1. page'[r] - 1 = p
      BY <2>1, <2>4
    <3>2. ~(got'[r] >= MaxRows) /\ got'[r] \in Int /\ MaxRows \in Int
      BY <1>1, <2>1, <2>2, <2>5
    <3>3. QED
      BY <1>P, <2>5, <3>1, <3>2
  <2>7. ReadUpTo(r, got[r])'
    BY <1>7, <2>5 DEF ReadUpTo
  <2>8. QED
    BY <2>5, <2>6, <2>7
<1>11. ASSUME pc'[r] = "checking"
       PROVE  got'[r] > 0 /\ ReadUpTo(r, MaxRows)'
  <2>1. n = 0 \/ LastPage(r, n)
    BY <1>4, <1>6, <1>11 DEF TypeOK
  <2>2. (\A l \in PendingLines : Rank(l) <= m) \/ m = MaxRows
    <3>1. CASE n = 0 \/ got[r] + n >= C
      BY <1>1, <1>4, <1>8, <1>9, <3>1
    <3>2. CASE p + 1 > MaxPages
      <4>1. PICK d \in Nat : p = MaxPages + d
        <5> DEFINE d == p - MaxPages
        <5>1. d \in Nat /\ p = MaxPages + d
          BY <1>1, <3>2
        <5> HIDE DEF d
        <5>2. QED
          BY <5>1
      <4> DEFINE x == MaxPages * PageCap
                 y == d * PageCap
      <4>2. m = x + y
        BY <1>1, <1>P, <4>1
      <4>3. x \in Nat /\ y \in Nat /\ MaxRows <= x
        BY <1>1, PageLimitAssumption
      <4> HIDE DEF x, y
      <4>4. m = MaxRows
        <5>1. MaxRows \in Nat /\ m \in Nat /\ MaxRows <= m
          BY <1>1, <4>2, <4>3
        <5>2. QED
          BY <1>2, <5>1
      <4>5. QED
        BY <4>4
    <3>3. CASE got[r] + n >= MaxRows
      BY <1>1, <1>2, <1>4, <3>3
    <3>4. QED
      BY <2>1, <3>1, <3>2, <3>3 DEF LastPage, C
  <2>3. \A l \in PendingLines : Rank(l) <= m <=> Rank(l) <= MaxRows
    <3>1. \A l \in PendingLines : Rank(l) \in Int
      BY <1>4, RankIsPlace DEF C
    <3>2. QED
      BY <1>1, <1>2, <2>2, <3>1
  <2>4. UNCHANGED PendingLines /\ \A l \in Lines : Rank(l)' = Rank(l)
    BY <1>6 DEF PendingLines, Rank
  <2>5. ReadUpTo(r, MaxRows)'
    BY <1>6, <1>7, <2>3, <2>4 DEF ReadUpTo
  <2>6. got'[r] = got[r] + n /\ got[r] + n # 0
    BY <1>6, <1>11 DEF TypeOK
  <2>7. got[r] + n > 0
    <3>1. got[r] \in Nat /\ n \in Nat
      BY <1>1, <1>4
    <3>2. QED
      BY <2>6, <3>1
  <2>8. QED
    BY <2>5, <2>6, <2>7
<1>12. QED
  BY <1>7, <1>10, <1>11

LEMMA ExactInit == Init => ExactInv
<1> SUFFICES ASSUME Init
             PROVE  ExactInv
  OBVIOUS
<1>1. ASSUME NEW r \in Requests
      PROVE  got[r] = (page[r] - 1) * PageCap /\ got[r] < MaxRows /\ ReadUpTo(r, got[r])
  <2>1. got[r] = 0 /\ page[r] = 1 /\ \A l \in Lines : rows[r][l] = 0
    BY <1>1 DEF Init
  <2>2. (1 - 1) * PageCap = 0 /\ 0 < MaxRows
    BY AcceptanceAssumption
  <2>3. QED
    BY <1>1, <2>1, <2>2, NothingRead
<1>2. QED
  BY <1>1 DEF Init, ExactInv

LEMMA ExactStep == IInv /\ ExactInv /\ [Next]_vars => ExactInv'
<1> SUFFICES ASSUME TypeOK, ReadInv, StageInv, ExactInv, [Next]_vars
             PROVE  ExactInv'
  BY DEF IInv
<1> DEFINE Exact(r) ==
      \/ raced[r]
      \/ /\ pc[r] \in {"new", "fetching"} =>
              /\ got[r] = (page[r] - 1) * PageCap /\ got[r] < MaxRows
              /\ ReadUpTo(r, got[r])
         /\ pc[r] = "checking" => got[r] > 0 /\ ReadUpTo(r, MaxRows)
<1>1. ASSUME NEW r \in Requests, UNCHANGED pending, rows'[r] = rows[r], got'[r] = got[r],
             page'[r] = page[r], raced'[r] = raced[r],
             pc'[r] \in {"new", "fetching"} => pc[r] \in {"new", "fetching"},
             pc'[r] = "checking" => pc[r] = "checking"
      PROVE  Exact(r)'
  <2>1. ReadUpTo(r, got[r])' <=> ReadUpTo(r, got[r])
    BY <1>1 DEF ReadUpTo, PendingLines, Rank
  <2>2. ReadUpTo(r, MaxRows)' <=> ReadUpTo(r, MaxRows)
    BY <1>1 DEF ReadUpTo, PendingLines, Rank
  <2>3. Exact(r)
    BY DEF ExactInv
  <2> HIDE DEF ReadUpTo
  <2>4. QED
    BY <1>1, <2>1, <2>2, <2>3
<1>2. ASSUME NEW r \in Requests, Press(r) \/ FetchFails(r) \/ Check(r) \/ Receive(r)
                                   \/ TimeOut(r) \/ Refuse(r) \/ LoseCall(r)
      PROVE  ExactInv'
  <2>1. UNCHANGED <<pending, rows, got, page, raced>>
    BY <1>2 DEF Press, FetchFails, Check, Sends, Receive, TimeOut, Refuse, LoseCall, Handled,
                server, registers, reading
  <2>2. \A s \in Requests : /\ pc'[s] \in {"new", "fetching"} => pc[s] \in {"new", "fetching"}
                            /\ pc'[s] = "checking" => pc[s] = "checking"
    BY <1>2 DEF Press, FetchFails, Check, Sends, Receive, TimeOut, Refuse, LoseCall, Handled,
                Finish, TypeOK
  <2>3. \A s \in Requests : Exact(s)'
    BY <1>1, <2>1, <2>2
  <2>4. QED
    BY <2>3 DEF ExactInv
<1>3. ASSUME NEW r \in Requests, FetchPage(r)
      PROVE  ExactInv'
  <2>1. UNCHANGED <<pending, raced>> /\ pc[r] = "fetching"
    BY <1>3 DEF FetchPage, server, registers
  <2>2. \A s \in Requests \ {r} : /\ rows'[s] = rows[s] /\ got'[s] = got[s]
                                  /\ page'[s] = page[s] /\ pc'[s] = pc[s]
    BY <1>3 DEF FetchPage, Finish, TypeOK
  <2>3. pc'[r] \in {"fetching", "checking", "done"}
    BY <1>3 DEF FetchPage, Finish, TypeOK
  <2>4. Exact(r)'
    <3>1. CASE raced[r]
      BY <2>1, <3>1
    <3>2. CASE ~raced[r]
      <4>1. got[r] = (page[r] - 1) * PageCap /\ got[r] < MaxRows /\ ReadUpTo(r, got[r])
        BY <2>1, <3>2 DEF ExactInv
      <4>2. /\ pc'[r] = "fetching" =>
                 /\ got'[r] = (page'[r] - 1) * PageCap /\ got'[r] < MaxRows
                 /\ ReadUpTo(r, got[r])'
            /\ pc'[r] = "checking" => got'[r] > 0 /\ ReadUpTo(r, MaxRows)'
        BY <1>3, <4>1, ReadPage
      <4> HIDE DEF ReadUpTo
      <4>3. QED
        BY <2>3, <4>2
    <3>3. QED
      BY <3>1, <3>2
  <2>5. \A s \in Requests \ {r} : Exact(s)'
    BY <1>1, <2>1, <2>2
  <2>6. QED
    BY <2>4, <2>5 DEF ExactInv
<1>4. ASSUME NEW r \in Requests, Book(r)
      PROVE  ExactInv'
  <2>1. /\ UNCHANGED <<rows, got, page, pc>> /\ pc[r] \notin {"new", "fetching", "checking"}
        /\ raced' = [s \in Requests |-> raced[s] \/ (s # r /\ got[s] > 0)]
    BY <1>4 DEF Book, Move, Handled, reading, StageInv
  <2>2. Exact(r)'
    BY <2>1
  <2>3. ASSUME NEW s \in Requests \ {r}
        PROVE  Exact(s)'
    <3>1. CASE got[s] > 0
      <4>1. raced'[s]
        BY <2>1, <3>1, Zenon
      <4>2. QED
        BY <4>1
    <3>2. CASE ~(got[s] > 0)
      <4>1. got[s] = 0
        BY <3>2 DEF TypeOK
      <4>2. page[s] = 1 /\ \A l \in Lines : rows'[s][l] = 0
        BY <2>1, <4>1 DEF ReadInv
      <4>3. got'[s] = (page'[s] - 1) * PageCap /\ got'[s] < MaxRows
        <5>1. (1 - 1) * PageCap = 0 /\ 0 < MaxRows
          BY AcceptanceAssumption
        <5>2. QED
          BY <2>1, <4>1, <4>2, <5>1
      <4>4. ReadUpTo(s, 0)'
        <5>1. ASSUME NEW l \in PendingLines'
              PROVE  Rank(l)' \in Nat /\ Rank(l)' # 0
          <6> DEFINE T == {k \in PendingLines' : k <= l}
          <6>1. T \subseteq Lines /\ Lines \subseteq Nat /\ IsFiniteSet(Lines)
            BY AcceptanceAssumption DEF PendingLines
          <6>2. IsFiniteSet(T) /\ l \in T
            BY <6>1, FS_Subset DEF PendingLines
          <6>3. QED
            BY <6>2, FS_CardinalityType, FS_EmptySet DEF Rank
        <5>2. QED
          BY <4>2, <5>1 DEF ReadUpTo
      <4>5. ReadUpTo(s, got[s])'
        BY <2>1, <4>1, <4>4 DEF ReadUpTo
      <4>6. raced[s] \/ pc[s] # "checking"
        BY <3>2 DEF ExactInv
      <4>7. raced[s] => raced'[s]
        BY <2>1, Zenon
      <4> HIDE DEF ReadUpTo
      <4>8. QED
        BY <2>1, <4>3, <4>5, <4>6, <4>7
    <3>3. QED
      BY <3>1, <3>2
  <2>4. QED
    BY <2>2, <2>3 DEF ExactInv
<1>5. CASE UNCHANGED vars
  <2>1. \A s \in Requests : Exact(s)'
    BY <1>1, <1>5 DEF vars, registers
  <2>2. QED
    BY <2>1 DEF ExactInv
<1>6. QED
  BY <1>2, <1>3, <1>4, <1>5 DEF Next, Handler

-----------------------------------------------------------------------------
(* What follows. *)

\* The message a user is shown is true, and stays true, for any number of lines, users,
\* pages and lost answers.
THEOREM MessagesAreTrue == Spec => []MessageTellsTruth
<1>1. IInv => MessageTellsTruth
  BY DEF IInv, StageInv, VerdictInv, MessageTellsTruth, Refusals
<1>2. QED
  BY <1>1, Invariant, PTL

\* A 409 is never the client's own doing: another request was booked in between.
THEOREM ConflictNeedsRace == Spec => []ConflictOnlyByRace
<1>1. IInv => ConflictOnlyByRace
  BY DEF IInv, VerdictInv, ConflictOnlyByRace
<1>2. QED
  BY <1>1, Invariant, PTL

\* The verdict of an undisturbed validation is right, for any number of pending lines and
\* wherever the loop stops: at an empty page, a partial one, the last one or the limit.
THEOREM VerdictsAreExact == Spec => UnracedVerdictIsExact
<1> DEFINE Exact(r) == Fits(r, [l \in Lines |-> Visible(l)])
           Verdict == \A r \in Requests :
                        pc[r] = "checking" /\ pc'[r] # "checking" /\ ~raced[r]
                          => (pc'[r] = "sent" <=> Exact(r))
<1>1. Init => IInv /\ ExactInv
  BY TypeInit, StageInit, ExactInit DEF IInv
<1>2. IInv /\ ExactInv /\ [Next]_vars => (IInv /\ ExactInv)'
  BY TypeStep, StageStep, ReadStep, VerdictStep, ExactStep DEF IInv
<1>3. IInv /\ ExactInv /\ [Next]_vars => [Verdict]_vars
  <2> SUFFICES ASSUME IInv, ExactInv, Next, NEW r \in Requests,
                      pc[r] = "checking", pc'[r] # "checking", ~raced[r]
               PROVE  pc'[r] = "sent" <=> Exact(r)
    OBVIOUS
  <2>1. Check(r)
    <3>1. ASSUME NEW s \in Requests, ~Check(s),
                 Press(s) \/ Handler(s) \/ Book(s) \/ Refuse(s) \/ LoseCall(s)
          PROVE  pc'[r] = pc[r]
      BY <3>1 DEF Handler, Press, FetchPage, FetchFails, Receive, TimeOut, Book, Refuse,
                  Handled, LoseCall, Finish, IInv, TypeOK
    <3>2. \A s \in Requests : Check(s) => s = r \/ pc'[r] = pc[r]
      BY DEF Check, Sends, Finish, IInv, TypeOK
    <3>3. QED
      BY <3>1, <3>2 DEF Next
  <2>2. \A l \in Lines : rows[r][l] = Visible(l)
    BY DEF ExactInv, ReadUpTo, Visible
  <2>3. Valid(r) <=> Exact(r)
    BY <2>2 DEF Valid, Fits, Posted
  <2>4. pc'[r] = "sent" <=> Valid(r)
    BY <2>1 DEF Check, Sends, Finish, IInv, TypeOK
  <2>5. QED
    BY <2>3, <2>4
<1>4. QED
  BY <1>1, <1>2, <1>3, PTL DEF Spec, UnracedVerdictIsExact

-----------------------------------------------------------------------------
(* The ledger.  A form is blank until it is sent, and is the same ever     *)
(* after; that makes what a request asks for a variable of the ledger.     *)

BlankInv == \A r \in Requests : pc[r] = "new" => form[r] = NoEntry

LEMMA BlankStep == TypeOK /\ BlankInv /\ [Next]_vars => BlankInv'
<1> SUFFICES ASSUME TypeOK, BlankInv, [Next]_vars
             PROVE  BlankInv'
  OBVIOUS
<1>1. ASSUME NEW r \in Requests, Press(r)
      PROVE  BlankInv'
  BY <1>1 DEF Press, BlankInv, TypeOK
<1>2. ASSUME NEW r \in Requests, Handler(r)
      PROVE  BlankInv'
  BY <1>2 DEF Handler, FetchPage, FetchFails, Check, Sends, Receive, TimeOut, Finish, BlankInv, TypeOK
<1>3. ASSUME NEW r \in Requests, Book(r) \/ Refuse(r) \/ LoseCall(r)
      PROVE  BlankInv'
  BY <1>3 DEF Book, Move, Refuse, LoseCall, Handled, BlankInv
<1>4. CASE UNCHANGED vars
  BY <1>4 DEF vars, BlankInv
<1>5. QED
  BY <1>1, <1>2, <1>3, <1>4 DEF Next

\* The press of the button writes what the request asks for, where nothing was.
LEMMA PressWrites ==
  ASSUME TypeOK, TypeOK', BlankInv, NEW r \in Requests, Press(r)
  PROVE  /\ Asked[r] = [l \in Lines |-> [acc |-> 0, lst |-> 0]]
         /\ Asked'[r] \in [Lines -> [acc : Int, lst : Int]]
         /\ Asked' = [Asked EXCEPT ![r] = Asked'[r]]
<1>1. ASSUME NEW l \in Lines
      PROVE  Acc(r, l) = 0 /\ Lst(r, l) = 0
  <2>1. form[r][l] = [acc |-> 0, lst |-> 0]
    BY DEF Press, BlankInv, NoEntry
  <2>2. QED
    BY <2>1 DEF Acc, Lst, ToQty
<1>2. ASSUME NEW l \in Lines
      PROVE  Acc(r, l)' \in Int /\ Lst(r, l)' \in Int
  <2>1. form'[r][l].acc \in Entries /\ form'[r][l].lst \in Entries
    BY DEF TypeOK, FormType
  <2>2. QED
    BY <2>1 DEF Acc, Lst, ToQty, Entries
<1>3. ASSUME NEW s \in Requests, s # r, NEW l \in Lines
      PROVE  Acc(s, l)' = Acc(s, l) /\ Lst(s, l)' = Lst(s, l)
  BY <1>3 DEF Press, TypeOK, Acc, Lst
<1>4. Asked[r] = [l \in Lines |-> [acc |-> 0, lst |-> 0]]
  BY <1>1 DEF Asked
<1>5. Asked'[r] \in [Lines -> [acc : Int, lst : Int]]
  BY <1>2 DEF Asked
<1>6. \A s \in Requests : s # r => Asked'[s] = Asked[s]
  BY <1>3 DEF Asked
<1>7. QED
  BY <1>4, <1>5, <1>6 DEF Asked

LEMMA AskedStays ==
  ASSUME UNCHANGED form
  PROVE  UNCHANGED Asked
BY DEF Asked, Acc, Lst

\* What the server books is what the request asks for: of every line, and exactly.
LEMMA BookTakesAll ==
  ASSUME TypeOK, NEW r \in Requests, Book(r)
  PROVE  /\ Asked[r] # [l \in Lines |-> [acc |-> 0, lst |-> 0]]
         /\ \A l \in Lines : /\ Asked[r][l].acc \in Int /\ Asked[r][l].acc >= 0
                             /\ Asked[r][l].lst \in Int /\ Asked[r][l].lst >= 0
                             /\ Asked[r][l].acc + Asked[r][l].lst <= pending[l]
         /\ pending' = [l \in Lines |-> pending[l] - Asked[r][l].acc - Asked[r][l].lst]
         /\ stock' = [l \in Lines |-> stock[l] + Asked[r][l].acc]
         /\ lost' = [l \in Lines |-> lost[l] + Asked[r][l].lst]
         /\ UNCHANGED Asked
<1>1. \A l \in Lines : Asked[r][l].acc = Acc(r, l) /\ Asked[r][l].lst = Lst(r, l)
  BY DEF Asked
<1>2. PICK l \in Lines : Acc(r, l) # 0 \/ Lst(r, l) # 0
  BY DEF Book, Posted
<1>3. Asked[r] # [k \in Lines |-> [acc |-> 0, lst |-> 0]]
  BY <1>1, <1>2
<1>4. pending \in [Lines -> Nat] /\ Fits(r, pending)
  BY DEF Book, TypeOK
<1>5. \A k \in Lines : /\ Acc(r, k) \in Int /\ Acc(r, k) >= 0
                      /\ Lst(r, k) \in Int /\ Lst(r, k) >= 0
                      /\ Acc(r, k) + Lst(r, k) <= pending[k]
  BY <1>4, FitsAllLines, QtyType
<1>6. /\ pending' = [k \in Lines |-> pending[k] - Asked[r][k].acc - Asked[r][k].lst]
      /\ stock' = [k \in Lines |-> stock[k] + Asked[r][k].acc]
      /\ lost' = [k \in Lines |-> lost[k] + Asked[r][k].lst]
  BY <1>1 DEF Book, Move
<1>7. UNCHANGED Asked
  BY AskedStays DEF Book, Handled
<1>8. QED
  BY <1>1, <1>3, <1>5, <1>6, <1>7

\* Whatever the requests do, the registers move as the abstract ledger allows: a form is
\* booked at most once and as a whole, each of its lines by what its user entered, and
\* goods only move from pending to stock or lost.
THEOREM ImplementsLedger == Spec => LedgerSpec
<1>1. Init => Ledger!Init /\ BlankInv
  <2> SUFFICES ASSUME Init
               PROVE  Ledger!Init /\ BlankInv
    OBVIOUS
  <2>1. ASSUME NEW r \in Requests, NEW l \in Lines
        PROVE  Acc(r, l) = 0 /\ Lst(r, l) = 0
    <3>1. form[r][l] = [acc |-> 0, lst |-> 0]
      BY DEF Init, NoEntry
    <3>2. QED
      BY <3>1 DEF Acc, Lst, ToQty
  <2>2. Asked = [r \in Requests |-> [l \in Lines |-> [acc |-> 0, lst |-> 0]]]
    BY <2>1 DEF Asked
  <2>3. QED
    BY <2>2 DEF Init, BlankInv, Ledger!Init, Ledger!Nothing, Ledger!NoShare
<1>2. IInv /\ BlankInv /\ [Next]_vars => [Ledger!Next]_Ledger!ledger
  <2> SUFFICES ASSUME IInv, BlankInv, [Next]_vars
               PROVE  [Ledger!Next]_Ledger!ledger
    OBVIOUS
  <2> TypeOK /\ TypeOK'
    BY TypeStep DEF IInv
  <2>1. ASSUME NEW r \in Requests, Book(r)
        PROVE  Ledger!Next
    <3>1. r \notin booked /\ booked' = booked \cup {r}
      BY <2>1 DEF Book, Move, Handled, IInv, StageInv
    <3>2. Ledger!Accept(r)
      BY <2>1, <3>1, BookTakesAll DEF Ledger!Accept, Ledger!Nothing, Ledger!NoShare
    <3>3. QED
      BY <3>2 DEF Ledger!Next
  <2>2. ASSUME NEW r \in Requests, Press(r)
        PROVE  Ledger!Next
    <3>1. UNCHANGED <<pending, stock, lost, booked>>
      BY <2>2 DEF Press, server, registers
    <3>2. Ledger!Write(r)
      BY <2>2, <3>1, PressWrites DEF Ledger!Write, Ledger!Nothing, Ledger!NoShare, Ledger!Share
    <3>3. QED
      BY <3>2 DEF Ledger!Next
  <2>3. ASSUME NEW r \in Requests, Handler(r) \/ Refuse(r) \/ LoseCall(r)
        PROVE  UNCHANGED Ledger!ledger
    <3>1. UNCHANGED <<pending, stock, lost, booked, form>>
      BY <2>3 DEF Handler, FetchPage, FetchFails, Check, Sends, Receive, TimeOut, Refuse, LoseCall,
                  Handled, server, registers
    <3>2. QED
      BY <3>1, AskedStays DEF Ledger!ledger
  <2>4. CASE UNCHANGED vars
    BY <2>4, AskedStays DEF vars, registers, Ledger!ledger
  <2>5. QED
    BY <2>1, <2>2, <2>3, <2>4 DEF Next
<1>3. IInv /\ BlankInv /\ [Next]_vars => BlankInv'
  BY BlankStep DEF IInv
<1>4. QED
  BY <1>1, <1>2, <1>3, Invariant, PTL DEF Spec, LedgerSpec, Ledger!Spec
=============================================================================
