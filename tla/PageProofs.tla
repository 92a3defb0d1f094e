----------------------------- MODULE PageProofs -----------------------------
(***************************************************************************)
(* The three parts of the page: route planning (PlanSpec), the map panel   *)
(* (PanelSpec), and the base map with its overlays (MapSpec), for every    *)
(* number of sources, zooms, stops, requests and clicks.  The parts share  *)
(* no variable: each has an inductive invariant of its own, PlanInv,       *)
(* PanelInv and MapInv.  Everywhere the work is to relate the answers that *)
(* are still under way to what the page waits for and has drawn.           *)
(***************************************************************************)
EXTENDS MCPage, TLAPS, SequenceTheorems, FiniteSetTheorems,
        WellFoundedInduction

-----------------------------------------------------------------------------
(* Route planning.                                                         *)

(* A list of different numbers below top. *)
Numbered(s, top) ==
    /\ s \in Seq(Nat)
    /\ \A i \in 1..Len(s) : 1 <= s[i] /\ s[i] < top
    /\ \A i, j \in 1..Len(s) : s[i] = s[j] => i = j

(* Markers are numbered upwards, on the map and in the storage. *)
MarkerInv ==
    /\ placed \in 0..MaxStops /\ stopSeq \in 1..(placed + 1)
    /\ Numbered(stops, stopSeq) /\ Numbered(stored, placed + 1)

(* The list shown and the request that is wanted are for the newest input. *)
SuggestInv ==
    /\ box \in [typed : 0..MaxKeys, timer : BOOLEAN, requests : SUBSET (1..MaxKeys),
                wanted : 0..MaxKeys, list : 0..MaxKeys]
    /\ box.wanted \in {0, box.typed} /\ box.list \in {0, box.typed}
    /\ box.timer => box.typed # 0

(* A button is disabled for the one that is wanted. *)
Paired(busy, id) == (busy = TRUE /\ id # 0) \/ (busy = FALSE /\ id = 0)

(* What is wanted has not been abandoned.  A question that brings a route
   itself is never the computation that is wanted. *)
CallsInv ==
    /\ made \in 0..MaxComputations
    /\ go \in [req : 0..made, busy : BOOLEAN, due : BOOLEAN]
    /\ calls \subseteq [id : 1..made, at : {"gps", "route", "trip"}, trip : BOOLEAN]
    /\ \A a, b \in calls : a.id = b.id => a = b
    /\ go.req # 0 => \E c \in calls : c.id = go.req
    /\ ai \in [id : 0..made, busy : BOOLEAN]
    /\ asks \subseteq [id : 1..made, waits : 0..made]
    /\ abandoned \subseteq 1..made
    /\ Paired(go.busy, go.req) /\ Paired(ai.busy, ai.id)
    /\ go.req \notin abandoned
    /\ \A q \in asks : q.waits = 0 =>
          q.id # go.req /\ (q.id = ai.id => q.id \notin abandoned)

(* The result is shown of a route only. *)
ScreenInv ==
    /\ field \in [Fields -> Values] /\ vias \in 0..MaxVias
    /\ route \in 0..made /\ editing \in BOOLEAN
    /\ ~editing => route # 0
    /\ choices \subseteq Fields /\ locating \in BOOLEAN

PlanInv == MarkerInv /\ SuggestInv /\ CallsInv /\ ScreenInv

(* A set of natural numbers has a least element. *)
LEMMA LeastNumber ==
    ASSUME NEW T \in SUBSET Nat, T # {}
    PROVE  \E m \in T : \A k \in T : m <= k
<1>1. PICK m \in T : \A k \in T : <<k, m>> \notin OpToRel(<, Nat)
  BY NatLessThanWellFounded, WFMin
<1>2. \A k \in T : ~(k < m)
  BY <1>1 DEF OpToRel
<1> QED BY <1>2

(* A bounded one has a greatest, which is its Max. *)
LEMMA MaxIsGreatest ==
    ASSUME NEW n \in Nat, NEW S \in SUBSET (0..n), S # {}
    PROVE  Max(S) \in S /\ \A x \in S : x <= Max(S)
<1> DEFINE T == {k \in Nat : n - k \in S}
<1>1. PICK x \in S : TRUE
  OBVIOUS
<1>2. n - x \in T
  BY <1>1
<1>3. PICK m \in T : \A k \in T : m <= k
  BY <1>2, LeastNumber
<1>4. \A y \in S : y <= n - m
  <2>1. SUFFICES ASSUME NEW y \in S PROVE y <= n - m
    OBVIOUS
  <2>2. n - y \in T
    BY <2>1
  <2> QED BY <1>3, <2>2
<1>5. n - m \in S /\ \A y \in S : n - m >= y
  BY <1>3, <1>4
<1>6. Max(S) \in S /\ \A y \in S : Max(S) >= y
  BY <1>5 DEF Max
<1> QED BY <1>6

(* Removing an element moves those behind it. *)
LEMMA RemoveAtMoves ==
    ASSUME NEW T, NEW s \in Seq(T), NEW i \in 1..Len(s)
    PROVE  /\ RemoveAt(s, i) \in Seq(T) /\ Len(RemoveAt(s, i)) = Len(s) - 1
           /\ \A j \in 1..(Len(s) - 1) :
                 RemoveAt(s, i)[j] = IF j < i THEN s[j] ELSE s[j + 1]
<1> DEFINE front == SubSeq(s, 1, i - 1)
           back  == SubSeq(s, i + 1, Len(s))
<1>1. /\ front \in Seq(T) /\ Len(front) = i - 1
      /\ \A j \in 1..(i - 1) : front[j] = s[j]
  OBVIOUS
<1>2. /\ back \in Seq(T) /\ Len(back) = Len(s) - i
      /\ \A j \in 1..(Len(s) - i) : back[j] = s[i + j]
  OBVIOUS
<1> HIDE DEF front, back
<1>3. Len(s) \in Nat /\ RemoveAt(s, i) = front \o back
  BY DEF RemoveAt, front, back
<1>4. /\ front \o back \in Seq(T) /\ Len(front \o back) = Len(s) - 1
      /\ \A j \in 1..(Len(s) - 1) :
            (front \o back)[j] = IF j < i THEN front[j] ELSE back[j - (i - 1)]
  <2>1. /\ front \o back \in Seq(T) /\ Len(front \o back) = Len(front) + Len(back)
        /\ \A j \in 1..(Len(front) + Len(back)) :
              (front \o back)[j] =
                 IF j <= Len(front) THEN front[j] ELSE back[j - Len(front)]
    BY <1>1, <1>2, ConcatProperties
  <2>2. Len(front) = i - 1 /\ Len(front) + Len(back) = Len(s) - 1
    BY <1>1, <1>2, <1>3
  <2>3. \A j \in 1..(Len(s) - 1) : j <= i - 1 <=> j < i
    BY <1>3
  <2> QED BY <2>1, <2>2, <2>3
<1>5. ASSUME NEW j \in 1..(Len(s) - 1)
      PROVE  RemoveAt(s, i)[j] = IF j < i THEN s[j] ELSE s[j + 1]
  <2>1. CASE j < i
    BY <1>1, <1>3, <1>4, <2>1
  <2>2. CASE ~(j < i)
    <3>1. j - (i - 1) \in 1..(Len(s) - i) /\ i + (j - (i - 1)) = j + 1
      BY <1>3, <2>2
    <3>2. back[j - (i - 1)] = s[j + 1]
      BY <1>2, <3>1
    <3> QED BY <1>3, <1>4, <2>2, <3>2
  <2> QED BY <2>1, <2>2
<1> QED BY <1>3, <1>4, <1>5

(* No number is in the empty list. *)
LEMMA EmptyIsNumbered ==
    ASSUME NEW top
    PROVE  Numbered(<<>>, top)
<1>1. <<>> \in Seq(Nat) /\ Len(<<>>) = 0 /\ 1..0 = {}
  OBVIOUS
<1> QED BY <1>1 DEF Numbered

(* A higher bound is a bound. *)
LEMMA NumberedBelow ==
    ASSUME NEW s, NEW top \in Nat, NEW up \in Nat, top <= up, Numbered(s, top)
    PROVE  Numbered(s, up)
<1>1. \A i \in 1..Len(s) : s[i] \in Nat
  BY ElementOfSeq DEF Numbered
<1>2. \A i \in 1..Len(s) : 1 <= s[i] /\ s[i] < up
  BY <1>1 DEF Numbered
<1> QED BY <1>2 DEF Numbered

(* The next number put at the end differs from all before it. *)
LEMMA NumberedAppend ==
    ASSUME NEW s, NEW top \in Nat, 1 <= top, Numbered(s, top)
    PROVE  Numbered(Append(s, top), top + 1)
<1> DEFINE n == Len(s)
           t == Append(s, top)
<1>1. s \in Seq(Nat)
  BY DEF Numbered
<1>2. /\ n \in Nat /\ t \in Seq(Nat) /\ Len(t) = n + 1
      /\ \A i \in 1..n : t[i] = s[i]
      /\ t[n + 1] = top
  BY <1>1
<1>3. \A i \in 1..n : s[i] \in Nat /\ 1 <= s[i] /\ s[i] < top
  BY <1>1, ElementOfSeq DEF Numbered
<1>4. \A i, j \in 1..n : s[i] = s[j] => i = j
  BY DEF Numbered
<1> HIDE DEF n, t
<1>5. \A i \in 1..(n + 1) : i \in 1..n \/ i = n + 1
  BY <1>2
<1>6. \A i \in 1..(n + 1) : 1 <= t[i] /\ t[i] < top + 1
  <2>1. \A i \in 1..n : 1 <= t[i] /\ t[i] < top
    BY <1>2, <1>3
  <2>2. \A i \in 1..n : t[i] \in Nat
    BY <1>2, <1>3
  <2>3. \A i \in 1..n : 1 <= t[i] /\ t[i] < top + 1
    BY <2>1, <2>2
  <2>4. 1 <= t[n + 1] /\ t[n + 1] < top + 1
    BY <1>2
  <2> QED BY <1>5, <2>3, <2>4
<1>7. ASSUME NEW i \in 1..(n + 1), NEW j \in 1..(n + 1), t[i] = t[j]
      PROVE  i = j
  <2>1. \A m \in 1..n : t[m] # t[n + 1]
    BY <1>2, <1>3
  <2>2. CASE i \in 1..n /\ j \in 1..n
    BY <1>2, <1>4, <1>7, <2>2
  <2> QED BY <1>5, <1>7, <2>1, <2>2
<1> QED BY <1>2, <1>6, <1>7 DEF Numbered, t

(* The numbers left after one is removed still differ. *)
LEMMA NumberedRemove ==
    ASSUME NEW s, NEW top, Numbered(s, top), NEW k \in DOMAIN s
    PROVE  Numbered(RemoveAt(s, k), top)
<1> DEFINE n      == Len(s)
           t      == RemoveAt(s, k)
           Was(j) == IF j < k THEN j ELSE j + 1
<1>1. s \in Seq(Nat) /\ n \in Nat /\ k \in 1..n
  BY LenProperties DEF Numbered
<1>2. /\ t \in Seq(Nat) /\ Len(t) = n - 1
      /\ \A j \in 1..(n - 1) : t[j] = IF j < k THEN s[j] ELSE s[j + 1]
  BY <1>1, RemoveAtMoves, Zenon
<1>3. \A i \in 1..n : 1 <= s[i] /\ s[i] < top
  BY DEF Numbered
<1>4. \A i, j \in 1..n : s[i] = s[j] => i = j
  BY DEF Numbered
<1> HIDE DEF n, t
<1>5. \A j \in 1..(n - 1) : Was(j) \in 1..n /\ t[j] = s[Was(j)]
  BY <1>1, <1>2
<1>6. \A i, j \in 1..(n - 1) : Was(i) = Was(j) => i = j
  BY <1>1
<1> HIDE DEF Was
<1>7. \A j \in 1..(n - 1) : 1 <= t[j] /\ t[j] < top
  BY <1>3, <1>5, Zenon
<1>8. \A i, j \in 1..(n - 1) : t[i] = t[j] => i = j
  BY <1>4, <1>5, <1>6, Zenon
<1> QED BY <1>2, <1>7, <1>8 DEF Numbered, t

(* A new page gives the restored markers no number again. *)
LEMMA RestoreKeepsMarkers ==
    ASSUME MarkerInv, restoreCustomMarkers
    PROVE  MarkerInv'
<1> DEFINE S == ToSet(stored) \cup {0}
<1>1. /\ placed \in 0..MaxStops /\ MaxStops \in Nat /\ stored \in Seq(Nat)
      /\ \A i \in 1..Len(stored) : 1 <= stored[i] /\ stored[i] < placed + 1
      /\ \A i, j \in 1..Len(stored) : stored[i] = stored[j] => i = j
  BY RoutePlanAssumption DEF MarkerInv, Numbered
<1>2. DOMAIN stored = 1..Len(stored) /\ \A i \in 1..Len(stored) : stored[i] \in Nat
  BY <1>1, LenProperties, ElementOfSeq
<1>3. placed \in Nat /\ S \in SUBSET (0..placed) /\ S # {}
  BY <1>1, <1>2 DEF ToSet
<1>4. \A i \in 1..Len(stored) : stored[i] \in S
  BY <1>2 DEF ToSet
<1>5. /\ stops' = stored /\ stored' = stored /\ placed' = placed
      /\ stopSeq' = Max(S) + 1
  BY DEF restoreCustomMarkers
<1> HIDE DEF S
<1>6. Max(S) \in S /\ \A x \in S : x <= Max(S)
  BY <1>3, MaxIsGreatest
<1>7. Max(S) \in 0..placed /\ Max(S) + 1 \in 1..(placed + 1)
  <2>1. Max(S) \in 0..placed
    BY <1>3, <1>6, Zenon
  <2> QED BY <1>3, <2>1
<1>8. \A i \in 1..Len(stored) : 1 <= stored[i] /\ stored[i] < Max(S) + 1
  BY <1>1, <1>2, <1>4, <1>6, <1>7
<1>9. Numbered(stored, Max(S) + 1)
  BY <1>1, <1>8 DEF Numbered
<1> QED BY <1>5, <1>7, <1>9 DEF MarkerInv

(* Setting and deleting markers, in whatever order, and reloads in between. *)
LEMMA MarkersStep ==
    ASSUME MarkerInv, [PlanNext]_planVars
    PROVE  MarkerInv'
<1>1. /\ MaxStops \in Nat /\ placed \in Nat /\ placed <= MaxStops
      /\ stopSeq \in Nat /\ 1 <= stopSeq /\ stopSeq <= placed + 1
  BY RoutePlanAssumption DEF MarkerInv
<1>2. Numbered(stops, stopSeq) /\ Numbered(stored, placed + 1)
  BY DEF MarkerInv
<1>3. Numbered(stops, placed + 1)
  BY <1>1, <1>2, NumberedBelow
<1>4. CASE AddMarker
  <2>1. /\ placed' = placed + 1 /\ placed' <= MaxStops
        /\ stopSeq' = stopSeq + 1
        /\ stops' = Append(stops, stopSeq) /\ stored' \in {stops', stored}
    BY <1>1, <1>4 DEF AddMarker, saveCustomMarkers
  <2>2. /\ placed + 1 \in Nat /\ placed' + 1 \in Nat
        /\ placed + 1 <= placed' + 1
        /\ stopSeq' \in Nat /\ stopSeq' <= placed' + 1
    BY <1>1, <2>1
  <2>3. Numbered(stops', stopSeq')
    BY <1>1, <1>2, <2>1, NumberedAppend
  <2>4. placed' \in 0..MaxStops /\ stopSeq' \in 1..(placed' + 1)
    BY <1>1, <2>1
  <2>5. Numbered(stops', placed' + 1) /\ Numbered(stored, placed' + 1)
    BY <1>2, <2>2, <2>3, NumberedBelow
  <2>6. Numbered(stored', placed' + 1)
    BY <2>1, <2>5
  <2> QED BY <2>3, <2>4, <2>6 DEF MarkerInv
<1>5. ASSUME NEW k \in DOMAIN stops, deleteStopMarker(k)
      PROVE  MarkerInv'
  <2>1. /\ stops' = RemoveAt(stops, k) /\ stored' \in {stops', stored}
        /\ stopSeq' = stopSeq /\ placed' = placed
    BY <1>5 DEF deleteStopMarker, saveCustomMarkers
  <2>2. Numbered(stops', stopSeq) /\ Numbered(stops', placed + 1)
    BY <1>2, <1>3, <1>5, <2>1, NumberedRemove
  <2> QED BY <1>2, <2>1, <2>2 DEF MarkerInv
<1>6. ASSUME stops' = <<>>, stopSeq' = 1, placed' = placed,
             stored' \in {stops', stored}
      PROVE  MarkerInv'
  <2>1. Numbered(stops', 1) /\ Numbered(stops', placed + 1)
    BY <1>6, EmptyIsNumbered
  <2>2. Numbered(stored', placed + 1)
    BY <1>2, <1>6, <2>1
  <2>3. placed' \in 0..MaxStops /\ stopSeq' \in 1..(placed' + 1)
    BY <1>1, <1>6
  <2> QED BY <1>6, <2>1, <2>2, <2>3 DEF MarkerInv
<1>7. CASE deleteAllStopMarkers \/ clear
  BY <1>6, <1>7 DEF deleteAllStopMarkers, clear, saveCustomMarkers
<1>8. CASE Reload
  BY <1>8, RestoreKeepsMarkers DEF Reload
<1>9. CASE UNCHANGED markerVars
  BY <1>9 DEF MarkerInv, markerVars
<1>10. CASE RouteStep
  <2>1. clear \/ Reload \/ UNCHANGED markerVars
    BY <1>10 DEF RouteStep, Go, DueCompute, setStopAsDestination, RouteHere,
       PickChoice, TypeField, TakeDestination, addWaypoint, useLocation,
       LocationArrives, removeWaypoint, clearRoute, editRoute, PositionArrives,
       RouteAnswer, Others
  <2> QED BY <1>7, <1>8, <1>9, <2>1
<1>11. CASE AskStep
  BY <1>9, <1>11 DEF AskStep, sendAIQuery, AskCompute, cancelAIQuery,
     appendAITargetChoices, AskComputed, AskAnswer, Others
<1>12. CASE SuggestStep
  BY <1>9, <1>12 DEF SuggestStep, onInput, hide, SuggestTimer, SuggestAnswer,
     TakeSuggestion, NoBox
<1>13. CASE UNCHANGED planVars
  BY <1>9, <1>13 DEF planVars, markerVars
<1> QED BY <1>4, <1>5, <1>7, <1>10, <1>11, <1>12, <1>13 DEF PlanNext, StopStep

(* Typing, timers, answers and choices of a field with suggestions. *)
LEMMA SuggestionsStep ==
    ASSUME SuggestInv, [PlanNext]_planVars
    PROVE  SuggestInv'
<1> USE RoutePlanAssumption
<1>0. /\ MaxKeys \in Nat
      /\ box = [typed |-> box.typed, timer |-> box.timer, requests |-> box.requests,
                wanted |-> box.wanted, list |-> box.list]
      /\ box.typed \in 0..MaxKeys /\ box.timer \in BOOLEAN
      /\ box.requests \in SUBSET (1..MaxKeys)
      /\ box.wanted \in {0, box.typed} /\ box.list \in {0, box.typed}
      /\ box.timer => box.typed # 0
  BY DEF SuggestInv
<1>1. ASSUME NEW long \in BOOLEAN, onInput(long) PROVE SuggestInv'
  <2>1. box' = [typed |-> box.typed + 1, timer |-> long, requests |-> box.requests,
                wanted |-> 0, list |-> 0]
    BY <1>0, <1>1 DEF onInput
  <2>2. box.typed + 1 \in 0..MaxKeys /\ box.typed + 1 # 0
    BY <1>0, <1>1 DEF onInput
  <2> QED BY <1>0, <2>1, <2>2 DEF SuggestInv
<1>2. CASE box' = Hidden(box)
  <2>1. box' = [typed |-> box.typed, timer |-> FALSE, requests |-> box.requests,
                wanted |-> 0, list |-> 0]
    BY <1>0, <1>2 DEF Hidden
  <2> QED BY <1>0, <2>1 DEF SuggestInv
<1>3. CASE SuggestTimer
  <2>1. box' = [typed |-> box.typed, timer |-> FALSE,
                requests |-> box.requests \cup {box.typed},
                wanted |-> box.typed, list |-> box.list]
    BY <1>0, <1>3 DEF SuggestTimer
  <2>2. box.typed \in 1..MaxKeys
    BY <1>0, <1>3 DEF SuggestTimer
  <2> QED BY <1>0, <2>1, <2>2 DEF SuggestInv
<1>4. ASSUME NEW k \in box.requests, SuggestAnswer(k) PROVE SuggestInv'
  <2>1. PICK l \in {box.list, box.wanted} :
           box' = [typed |-> box.typed, timer |-> box.timer,
                   requests |-> box.requests \ {k},
                   wanted |-> box.wanted, list |-> l]
    BY <1>0, <1>4 DEF SuggestAnswer
  <2> QED BY <1>0, <2>1 DEF SuggestInv
<1>5. CASE box' = Closed
  BY <1>5 DEF Closed, SuggestInv
<1>6. CASE UNCHANGED box
  BY <1>6 DEF SuggestInv
<1>7. CASE RouteStep
  <2>1. box' = Hidden(box) \/ box' = Closed \/ UNCHANGED box
    BY <1>7 DEF RouteStep, Go, DueCompute, setStopAsDestination, RouteHere,
       PickChoice, TypeField, TakeDestination, addWaypoint, useLocation,
       LocationArrives, removeWaypoint, clearRoute, editRoute, clear,
       PositionArrives, RouteAnswer, Others, Reload
  <2> QED BY <1>2, <1>5, <1>6, <2>1
<1>8. CASE AskStep
  BY <1>6, <1>8 DEF AskStep, sendAIQuery, AskCompute, cancelAIQuery,
     appendAITargetChoices, AskComputed, AskAnswer, Others
<1>9. CASE StopStep
  BY <1>6, <1>9 DEF StopStep, AddMarker, deleteAllStopMarkers, deleteStopMarker,
     RouteVars
<1>10. CASE hide \/ \E f \in Fields : TakeSuggestion(f)
  BY <1>2, <1>10 DEF hide, TakeSuggestion
<1>11. CASE UNCHANGED planVars
  BY <1>6, <1>11 DEF planVars
<1> QED BY <1>1, <1>3, <1>4, <1>7, <1>8, <1>9, <1>10, <1>11
        DEF PlanNext, SuggestStep

(* A computation begins, alone or for a question that waits for it. *)
LEMMA StartsKeepsCalls ==
    ASSUME CallsInv, NEW f, NEW v, Starts(f, v),
           \/ UNCHANGED askVars
           \/ /\ ai' = [id |-> made + 1, busy |-> TRUE]
              /\ asks' = asks \cup {[id |-> made + 1, waits |-> made + 1]}
    PROVE  CallsInv'
<1> USE RoutePlanAssumption
<1>1. /\ made \in Nat /\ made + 1 \in 0..MaxComputations /\ made' = made + 1
      /\ abandoned' = abandoned \cup ({go.req} \ {0}) /\ go.req \in 0..made
  BY DEF Starts, Gone, CallsInv
<1>2. /\ \A x \in 1..made : x \in 1..made' /\ x # made + 1
      /\ \A x \in 0..made : x \in 0..made' /\ x # made + 1
      /\ made + 1 \in 1..made' /\ made + 1 # 0
  BY <1>1
<1>3. \/ go' = [req |-> 0, busy |-> FALSE, due |-> FALSE] /\ calls' = calls
      \/ /\ go' = [req |-> made + 1, busy |-> TRUE, due |-> FALSE]
         /\ \E at \in {"gps", "route", "trip"}, trip \in BOOLEAN :
               calls' = calls \cup {[id |-> made + 1, at |-> at, trip |-> trip]}
  <2> DEFINE trip == v > 0 \/ stops # <<>>
             at   == IF f["from"] = "empty" THEN "gps"
                     ELSE IF trip THEN "trip" ELSE "route"
  <2>1. \/ go' = [req |-> 0, busy |-> FALSE, due |-> FALSE] /\ calls' = calls
        \/ /\ go' = [req |-> made + 1, busy |-> TRUE, due |-> FALSE]
           /\ calls' = calls \cup {[id |-> made + 1, at |-> at, trip |-> trip]}
    BY DEF Starts
  <2>2. at \in {"gps", "route", "trip"} /\ trip \in BOOLEAN
    OBVIOUS
  <2> HIDE DEF at, trip
  <2> QED BY <2>1, <2>2
<1>4. /\ go' \in [req : 0..made', busy : BOOLEAN, due : BOOLEAN]
      /\ Paired(go'.busy, go'.req)
  <2>1. 0 \in 0..made' /\ made + 1 \in 0..made'
    BY <1>1
  <2>2. CASE go' = [req |-> 0, busy |-> FALSE, due |-> FALSE]
    BY <2>1, <2>2 DEF Paired
  <2>3. CASE go' = [req |-> made + 1, busy |-> TRUE, due |-> FALSE]
    BY <1>2, <2>1, <2>3 DEF Paired
  <2> QED BY <1>3, <2>2, <2>3
<1>5. \A c \in calls' : c \in calls \/ c.id = made + 1
  BY <1>3
<1>6. \A c \in calls : /\ c.id \in 1..made /\ c.trip \in BOOLEAN
                        /\ c.at \in {"gps", "route", "trip"}
                        /\ c = [id |-> c.id, at |-> c.at, trip |-> c.trip]
  BY DEF CallsInv
<1>7. calls' \subseteq [id : 1..made', at : {"gps", "route", "trip"}, trip : BOOLEAN]
  <2>1. calls \subseteq [id : 1..made', at : {"gps", "route", "trip"}, trip : BOOLEAN]
    BY <1>2, <1>6
  <2> QED BY <1>2, <1>3, <2>1
<1>8. \A a, b \in calls' : a.id = b.id => a = b
  BY <1>2, <1>3, <1>5, <1>6 DEF CallsInv
<1>9. go'.req # 0 => \E c \in calls' : c.id = go'.req
  <2>1. SUFFICES ASSUME go'.req # 0 PROVE \E c \in calls' : c.id = go'.req
    OBVIOUS
  <2>2. PICK at \in {"gps", "route", "trip"}, trip \in BOOLEAN :
           calls' = calls \cup {[id |-> made + 1, at |-> at, trip |-> trip]}
    BY <1>3, <2>1
  <2>3. go'.req = made + 1
    BY <1>3, <2>1
  <2>4. [id |-> made + 1, at |-> at, trip |-> trip] \in calls'
    BY <2>2
  <2> QED BY <2>3, <2>4
<1>10. ai' \in [id : 0..made', busy : BOOLEAN] /\ Paired(ai'.busy, ai'.id)
  <2>1. ai.id \in 0..made /\ ai.busy \in BOOLEAN
    BY DEF CallsInv
  <2>2. ai = [id |-> ai.id, busy |-> ai.busy] /\ Paired(ai.busy, ai.id)
    BY DEF CallsInv
  <2>3. CASE ai' = ai
    BY <1>2, <2>1, <2>2, <2>3
  <2>4. CASE ai' = [id |-> made + 1, busy |-> TRUE]
    BY <1>2, <2>4 DEF Paired
  <2> QED BY <2>3, <2>4 DEF askVars
<1>11. \A q \in asks : /\ q.id \in 1..made /\ q.waits \in 0..made
                        /\ q = [id |-> q.id, waits |-> q.waits]
  BY DEF CallsInv
<1>12. asks' \subseteq [id : 1..made', waits : 0..made']
  <2>1. asks \subseteq [id : 1..made', waits : 0..made']
    BY <1>2, <1>11
  <2>2. made + 1 \in 0..made'
    BY <1>1
  <2> QED BY <1>2, <2>1, <2>2 DEF askVars
<1>13. abandoned' \subseteq 1..made'
  <2>1. abandoned \subseteq 1..made
    BY DEF CallsInv
  <2>2. go.req # 0 => go.req \in 1..made
    BY <1>1
  <2> QED BY <1>1, <1>2, <2>1, <2>2
<1>14. go'.req \notin abandoned'
  <2>1. abandoned \subseteq 1..made
    BY DEF CallsInv
  <2>2. go'.req = 0 \/ go'.req = made + 1
    BY <1>3
  <2> QED BY <1>1, <1>2, <2>1, <2>2
<1>15. ASSUME NEW q \in asks', q.waits = 0
       PROVE  q.id # go'.req /\ (q.id = ai'.id => q.id \notin abandoned')
  <2>1. q \in asks
    BY <1>2, <1>15 DEF askVars
  <2>2. go'.req = 0 \/ go'.req = made + 1
    BY <1>3
  <2>3. q.id # go'.req
    BY <1>1, <1>2, <1>11, <2>1, <2>2
  <2>4. q.id # go.req /\ (q.id = ai.id => q.id \notin abandoned)
    BY <1>15, <2>1 DEF CallsInv
  <2>5. q.id = ai'.id => q.id = ai.id
    BY <1>2, <1>11, <2>1 DEF askVars
  <2> QED BY <1>1, <2>3, <2>4, <2>5
<1> QED BY <1>1, <1>4, <1>7, <1>8, <1>9, <1>10, <1>12, <1>13, <1>14, <1>15
        DEF CallsInv

(* What is wanted is abandoned, by a control or with the question. *)
LEMMA CancelKeepsCalls ==
    ASSUME CallsInv, UNCHANGED <<made, calls, asks>>,
           go' \in [req : {0, go.req}, busy : BOOLEAN, due : BOOLEAN],
           Paired(go'.busy, go'.req),
           \/ UNCHANGED <<abandoned, ai>>
           \/ Gone({go.req}) /\ go'.req = 0 /\ UNCHANGED ai
           \/ Gone({go.req, ai.id}) /\ go'.req = 0 /\ ai' = [id |-> 0, busy |-> FALSE]
    PROVE  CallsInv'
<1> USE RoutePlanAssumption
<1>1. made \in Nat /\ go.req \in 0..made /\ ai.id \in 0..made
  BY DEF CallsInv
<1>2. /\ go' \in [req : 0..made', busy : BOOLEAN, due : BOOLEAN]
      /\ go'.req # 0 => \E c \in calls' : c.id = go'.req
  BY <1>1 DEF CallsInv
<1>3. ai' \in [id : 0..made', busy : BOOLEAN] /\ Paired(ai'.busy, ai'.id)
  <2>1. CASE ai' = ai
    BY <2>1 DEF CallsInv
  <2>2. CASE ai' = [id |-> 0, busy |-> FALSE]
    BY <1>1, <2>2 DEF Paired
  <2> QED BY <2>1, <2>2
<1>4. abandoned' \subseteq 1..made' /\ go'.req \notin abandoned'
  <2>1. /\ abandoned \subseteq 1..made /\ go.req \notin abandoned
        /\ 0 \notin 1..made
    BY <1>1 DEF CallsInv
  <2>2. abandoned' \subseteq abandoned \cup ({go.req, ai.id} \ {0})
    BY DEF Gone
  <2>3. (go.req # 0 => go.req \in 1..made) /\ (ai.id # 0 => ai.id \in 1..made)
    BY <1>1
  <2>4. go'.req = 0 \/ (go'.req = go.req /\ abandoned' = abandoned)
    OBVIOUS
  <2> QED BY <2>1, <2>2, <2>3, <2>4
<1>5. ASSUME NEW q \in asks', q.waits = 0
      PROVE  q.id # go'.req /\ (q.id = ai'.id => q.id \notin abandoned')
  <2>1. q \in asks /\ q.id \in 1..made /\ q.id # go.req
    BY <1>5 DEF CallsInv
  <2> QED BY <1>1, <1>5, <2>1 DEF CallsInv, Gone
<1> QED BY <1>2, <1>3, <1>4, <1>5 DEF CallsInv, Paired

(* A call of compute() returns, or goes on with a position. *)
LEMMA CallEndsKeepsCalls ==
    ASSUME CallsInv, NEW c \in calls, UNCHANGED <<made, askVars, abandoned>>,
           \/ calls' = calls \ {c} /\ go' = Done(c)
           \/ /\ go' = go
              /\ \E at \in {"route", "trip"} :
                    calls' = (calls \ {c}) \cup {[c EXCEPT !.at = at]}
    PROVE  CallsInv'
<1> USE RoutePlanAssumption
<1>1. /\ made \in Nat /\ c.id \in 1..made
      /\ c = [id |-> c.id, at |-> c.at, trip |-> c.trip]
      /\ go = [req |-> go.req, busy |-> go.busy, due |-> go.due]
  BY DEF CallsInv
<1>2. CASE calls' = calls \ {c} /\ go' = Done(c)
  <2>1. go' = [req |-> IF go.req = c.id THEN 0 ELSE go.req,
               busy |-> IF go.req = c.id THEN FALSE ELSE go.busy, due |-> go.due]
    BY <1>1, <1>2 DEF Done
  <2>2. /\ go' \in [req : 0..made', busy : BOOLEAN, due : BOOLEAN]
        /\ Paired(go'.busy, go'.req)
    <3>1. /\ go.req \in 0..made /\ go.busy \in BOOLEAN /\ go.due \in BOOLEAN
          /\ Paired(go.busy, go.req) /\ 0 \in 0..made
      BY <1>1 DEF CallsInv
    <3>2. CASE go.req = c.id
      BY <2>1, <3>1, <3>2 DEF Paired
    <3>3. CASE go.req # c.id
      BY <2>1, <3>1, <3>3
    <3> QED BY <3>2, <3>3
  <2>3. go'.req # 0 => \E d \in calls' : d.id = go'.req
    BY <1>2, <2>1 DEF CallsInv
  <2>4. go'.req \notin abandoned' /\ \A q \in asks' : q.waits = 0 => q.id # go'.req
    BY <1>1, <2>1 DEF CallsInv, askVars
  <2> QED BY <1>2, <2>2, <2>3, <2>4 DEF CallsInv, Paired, askVars
<1>3. ASSUME NEW at \in {"route", "trip"}, go' = go,
             calls' = (calls \ {c}) \cup {[c EXCEPT !.at = at]}
      PROVE  CallsInv'
  <2>1. calls' = (calls \ {c}) \cup {[id |-> c.id, at |-> at, trip |-> c.trip]}
    BY <1>1, <1>3
  <2>2. calls' \subseteq [id : 1..made', at : {"gps", "route", "trip"}, trip : BOOLEAN]
    BY <1>1, <1>3, <2>1 DEF CallsInv
  <2>3. go'.req # 0 => \E d \in calls' : d.id = go'.req
    <3>1. ASSUME NEW d \in calls PROVE \E e \in calls' : e.id = d.id
      <4>1. CASE d # c
        BY <2>1, <4>1
      <4>2. CASE d = c
        <5>1. [id |-> c.id, at |-> at, trip |-> c.trip] \in calls'
          BY <2>1
        <5> QED BY <4>2, <5>1
      <4> QED BY <4>1, <4>2
    <3> QED BY <1>3, <3>1 DEF CallsInv
  <2>4. \A a, b \in calls' : a.id = b.id => a = b
    BY <2>1 DEF CallsInv
  <2> QED BY <1>3, <2>2, <2>3, <2>4 DEF CallsInv, askVars
<1> QED BY <1>2, <1>3

(* A question ends; it may leave a computation that is due. *)
LEMMA AskEndsKeepsCalls ==
    ASSUME CallsInv, NEW q \in asks, UNCHANGED <<made, calls, abandoned>>,
           asks' = asks \ {q}, ai' = AskDone(q),
           go' = go \/ go' = [go EXCEPT !.due = TRUE]
    PROVE  CallsInv'
<1>1. go = [req |-> go.req, busy |-> go.busy, due |-> go.due]
  BY DEF CallsInv
<1>2. /\ go' \in [req : 0..made', busy : BOOLEAN, due : BOOLEAN]
      /\ go'.req = go.req /\ go'.busy = go.busy
  BY <1>1 DEF CallsInv
<1>3. made \in Nat
  BY RoutePlanAssumption DEF CallsInv
<1>4. ai' \in [id : 0..made', busy : BOOLEAN] /\ Paired(ai'.busy, ai'.id)
  BY <1>3 DEF CallsInv, AskDone, Paired
<1>5. \A p \in asks' : p.id = ai'.id => p.id = ai.id
  BY <1>3 DEF AskDone, CallsInv
<1> QED BY <1>2, <1>4, <1>5 DEF CallsInv, Paired

(* A question is asked. *)
LEMMA AskKeepsCalls ==
    ASSUME CallsInv, sendAIQuery
    PROVE  CallsInv'
<1>1. /\ made \in Nat /\ made + 1 \in 0..MaxComputations /\ made' = made + 1
      /\ ai' = [id |-> made + 1, busy |-> TRUE]
      /\ asks' = asks \cup {[id |-> made + 1, waits |-> 0]}
      /\ go' = go /\ calls' = calls /\ abandoned' = abandoned
  BY RoutePlanAssumption DEF sendAIQuery, CallsInv
<1>2. /\ go' \in [req : 0..made', busy : BOOLEAN, due : BOOLEAN]
      /\ calls' \subseteq [id : 1..made', at : {"gps", "route", "trip"}, trip : BOOLEAN]
      /\ asks' \subseteq [id : 1..made', waits : 0..made']
      /\ ai' \in [id : 0..made', busy : BOOLEAN]
      /\ abandoned' \subseteq 1..made'
  BY <1>1 DEF CallsInv
<1>3. ASSUME NEW q \in asks', q.waits = 0
      PROVE  q.id # go'.req /\ (q.id = ai'.id => q.id \notin abandoned')
  <2>1. go.req \in 0..made /\ abandoned \subseteq 1..made
    BY DEF CallsInv
  <2>2. CASE q \in asks
    <3>1. q.id \in 1..made /\ q.id # go.req
      BY <1>3, <2>2 DEF CallsInv
    <3> QED BY <1>1, <3>1
  <2>3. CASE q.id = made + 1
    BY <1>1, <2>1, <2>3
  <2> QED BY <1>1, <2>2, <2>3
<1>4. Paired(go'.busy, go'.req) /\ Paired(ai'.busy, ai'.id)
  BY <1>1 DEF CallsInv, Paired
<1> QED BY <1>1, <1>2, <1>3, <1>4 DEF CallsInv

(* The controls that cancel. *)
LEMMA ControlsKeepCalls ==
    ASSUME CallsInv, UNCHANGED <<made, calls, asks>>,
           \/ cancelRouteComputation /\ UNCHANGED ai
           \/ \E yes \in BOOLEAN : addWaypoint(yes)
           \/ cancelAIQuery
    PROVE  CallsInv'
<1>1. /\ go = [req |-> go.req, busy |-> go.busy, due |-> go.due]
      /\ go.busy \in BOOLEAN /\ go.due \in BOOLEAN /\ Paired(go.busy, go.req)
  BY DEF CallsInv
<1>2. \E due \in BOOLEAN : Cancelled(go) = [req |-> 0, busy |-> FALSE, due |-> due]
  BY <1>1 DEF Cancelled, Paired
<1>3. CASE cancelRouteComputation /\ UNCHANGED ai
  <2>1. /\ go' \in [req : {0, go.req}, busy : BOOLEAN, due : BOOLEAN]
        /\ Paired(go'.busy, go'.req) /\ go'.req = 0
    BY <1>2, <1>3 DEF cancelRouteComputation, Paired
  <2> QED BY <1>3, <2>1, CancelKeepsCalls DEF cancelRouteComputation
<1>4. CASE cancelAIQuery
  <2>1. /\ go' \in [req : {0, go.req}, busy : BOOLEAN, due : BOOLEAN]
        /\ Paired(go'.busy, go'.req) /\ go'.req = 0
    BY <1>2, <1>4 DEF cancelAIQuery, Paired
  <2> QED BY <1>4, <2>1, CancelKeepsCalls DEF cancelAIQuery
<1>5. CASE addWaypoint(TRUE)
  <2>1. PICK due \in BOOLEAN :
           Cancelled(go) = [req |-> 0, busy |-> FALSE, due |-> due]
    BY <1>2
  <2>2. go' = [req |-> 0, busy |-> FALSE, due |-> TRUE]
    BY <1>5, <2>1 DEF addWaypoint
  <2>3. /\ go' \in [req : {0, go.req}, busy : BOOLEAN, due : BOOLEAN]
        /\ Paired(go'.busy, go'.req) /\ go'.req = 0
    BY <2>2 DEF Paired
  <2> QED BY <1>5, <2>3, CancelKeepsCalls DEF addWaypoint, Others, askVars
<1>6. CASE addWaypoint(FALSE)
  <2>1. go' = [req |-> go.req, busy |-> go.busy, due |-> TRUE]
    BY <1>1, <1>6 DEF addWaypoint
  <2>2. /\ go' \in [req : {0, go.req}, busy : BOOLEAN, due : BOOLEAN]
        /\ Paired(go'.busy, go'.req)
    BY <1>1, <2>1
  <2> QED BY <1>6, <2>2, CancelKeepsCalls DEF addWaypoint, Others, askVars
<1> QED BY <1>3, <1>4, <1>5, <1>6

(* A new page has nothing under way. *)
LEMMA ReloadKeepsCalls ==
    ASSUME CallsInv, Reload
    PROVE  CallsInv'
<1>1. /\ calls' = {} /\ asks' = {} /\ made' = made /\ abandoned' = abandoned
      /\ go' = [req |-> 0, busy |-> FALSE, due |-> FALSE]
      /\ ai' = [id |-> 0, busy |-> FALSE]
  BY DEF Reload
<1>2. made \in Nat /\ made \in 0..MaxComputations /\ abandoned \subseteq 1..made
  BY RoutePlanAssumption DEF CallsInv
<1>3. 0 \in 0..made /\ 0 \notin 1..made
  BY <1>2
<1> QED BY <1>1, <1>2, <1>3 DEF CallsInv, Paired

(* Computations and questions, however they overlap. *)
LEMMA CallsStep ==
    ASSUME CallsInv, [PlanNext]_planVars
    PROVE  CallsInv'
<1>1. CASE UNCHANGED <<made, go, calls, askVars, abandoned>>
  BY <1>1 DEF CallsInv, askVars
<1>2. ASSUME NEW f, NEW v, Starts(f, v), UNCHANGED askVars PROVE CallsInv'
  BY <1>2, StartsKeepsCalls
<1>3. CASE cancelRouteComputation /\ UNCHANGED <<made, calls, askVars>>
  BY <1>3, ControlsKeepCalls DEF askVars
<1>4. CASE Go \/ DueCompute \/ (\E v \in {"text", "point"} : setStopAsDestination(v))
           \/ removeWaypoint \/ appendAITargetChoices
  BY <1>2, <1>4 DEF Go, DueCompute, setStopAsDestination, removeWaypoint,
     appendAITargetChoices, compute, Others
<1>5. ASSUME NEW f \in Fields, RouteHere(f) PROVE CallsInv'
  BY <1>2, <1>3, <1>5 DEF RouteHere
<1>6. CASE \E f \in Fields, v \in Values : TypeField(f, v)
  BY <1>3, <1>6 DEF TypeField
<1>7. CASE \E yes \in BOOLEAN : TakeDestination(yes)
  BY <1>1, <1>3, <1>7 DEF TakeDestination, Others
<1>8. CASE \E yes \in BOOLEAN : addWaypoint(yes)
  BY <1>8, ControlsKeepCalls DEF addWaypoint, Others, askVars
<1>9. CASE clearRoute \/ clear \/ editRoute
  BY <1>3, <1>9 DEF clearRoute, clear, editRoute, Erase, Others
<1>10. CASE \E f \in Fields : TakeSuggestion(f)
  BY <1>3, <1>10 DEF TakeSuggestion
<1>11. CASE cancelAIQuery
  BY <1>11, ControlsKeepCalls DEF cancelAIQuery
<1>12. ASSUME NEW c \in calls, PositionArrives(c) \/ RouteAnswer(c)
       PROVE  CallsInv'
  <2>1. UNCHANGED <<made, askVars, abandoned>>
    BY <1>12 DEF PositionArrives, RouteAnswer
  <2>2. \/ calls' = calls \ {c} /\ go' = Done(c)
        \/ /\ go' = go
           /\ \E at \in {"route", "trip"} :
                 calls' = (calls \ {c}) \cup {[c EXCEPT !.at = at]}
    BY <1>12 DEF PositionArrives, RouteAnswer, Fails
  <2> QED BY <2>1, <2>2, CallEndsKeepsCalls
<1>13. ASSUME NEW q \in asks, AskComputed(q) \/ AskAnswer(q) PROVE CallsInv'
  <2>1. /\ UNCHANGED <<made, calls, abandoned>>
        /\ asks' = asks \ {q} /\ ai' = AskDone(q)
        /\ go' = go \/ go' = [go EXCEPT !.due = TRUE]
    BY <1>13 DEF AskComputed, AskAnswer
  <2> QED BY <2>1, AskEndsKeepsCalls
<1>14. CASE sendAIQuery
  BY <1>14, AskKeepsCalls
<1>15. CASE AskCompute
  <2>1. \E f, v : Starts(f, v)
    BY <1>15 DEF AskCompute, compute
  <2>2. /\ ai' = [id |-> made + 1, busy |-> TRUE]
        /\ asks' = asks \cup {[id |-> made + 1, waits |-> made + 1]}
    BY <1>15 DEF AskCompute
  <2> QED BY <2>1, <2>2, StartsKeepsCalls
<1>16. CASE Reload
  BY <1>16, ReloadKeepsCalls
<1>17. CASE (\E f \in Fields : PickChoice(f)) \/ useLocation \/ LocationArrives
  BY <1>1, <1>17 DEF PickChoice, useLocation, LocationArrives
<1>18. CASE StopStep
  BY <1>1, <1>18 DEF StopStep, AddMarker, deleteAllStopMarkers,
     deleteStopMarker, RouteVars
<1>19. CASE \/ (\E long \in BOOLEAN : onInput(long)) \/ hide \/ SuggestTimer
            \/ \E k \in box.requests : SuggestAnswer(k)
  BY <1>1, <1>19 DEF onInput, hide, SuggestTimer, SuggestAnswer, NoBox
<1>20. CASE UNCHANGED planVars
  BY <1>1, <1>20 DEF planVars, askVars
<1> QED BY <1>4, <1>5, <1>6, <1>7, <1>8, <1>9, <1>10, <1>11, <1>12, <1>13,
           <1>14, <1>15, <1>16, <1>17, <1>18, <1>19, <1>20
        DEF PlanNext, RouteStep, AskStep, SuggestStep

(* What is on the screen. *)
LEMMA ScreenStep ==
    ASSUME CallsInv, ScreenInv, [PlanNext]_planVars
    PROVE  ScreenInv'
<1> USE RoutePlanAssumption
<1>1. /\ made \in Nat /\ MaxVias \in Nat
      /\ \A c \in calls : c.id \in 1..made
      /\ \A q \in asks : q.id \in 1..made
  BY DEF CallsInv
<1>2. /\ vias \in 0..MaxVias /\ (vias > 0 => vias - 1 \in 0..MaxVias)
      /\ \A v \in {vias, vias + 1} : v <= MaxVias => v \in 0..MaxVias
      /\ field \in [Fields -> Values] /\ choices \subseteq Fields
      /\ route \in 0..made /\ editing \in BOOLEAN /\ (~editing => route # 0)
      /\ \A f \in Fields, v \in Values : [field EXCEPT ![f] = v] \in [Fields -> Values]
      /\ [f \in Fields |-> "empty"] \in [Fields -> Values]
      /\ [f \in Fields |-> "point"] \in [Fields -> Values]
      /\ {"empty", "text", "point"} = Values
      /\ \A a, b \in Values : [from |-> a, to |-> b] \in [Fields -> Values]
  BY <1>1 DEF ScreenInv, Fields, Values
<1>3. /\ field["from"] \in Values /\ field["to"] \in Values
  BY <1>2 DEF Fields
<1>4. ASSUME made' \in {made, made + 1}, field' \in [Fields -> Values],
             vias' \in 0..MaxVias, choices' \subseteq Fields,
             locating' \in BOOLEAN, editing' \in BOOLEAN,
             \/ route' = route /\ (editing' = editing \/ editing' = TRUE)
             \/ route' = route /\ route # 0
             \/ route' = 0 /\ editing' = TRUE
             \/ route' \in 1..made
      PROVE  ScreenInv'
  <2>1. route' \in 0..made
    BY <1>1, <1>2, <1>4
  <2>2. route' \in 0..made'
    BY <1>1, <1>4, <2>1
  <2>3. ~editing' => route' # 0
    BY <1>1, <1>2, <1>4
  <2> QED BY <1>4, <2>2, <2>3 DEF ScreenInv
<1>5. ASSUME NEW f \in [Fields -> Values], NEW v \in 0..MaxVias, compute(f, v),
             UNCHANGED <<route, choices, locating>>
      PROVE  ScreenInv'
  <2>1. /\ made' = made + 1 /\ field' = f /\ vias' = v
        /\ editing' = (editing \/ NoTarget(f, v))
    BY <1>5 DEF compute, Starts
  <2>2. editing' \in BOOLEAN /\ (editing' = editing \/ editing' = TRUE)
    BY <1>2, <2>1
  <2> QED BY <1>4, <1>5, <2>1, <2>2 DEF ScreenInv
<1>6. CASE Go \/ DueCompute \/ removeWaypoint
  BY <1>2, <1>5, <1>6 DEF Go, DueCompute, removeWaypoint, Others
<1>7. CASE (\E v \in {"text", "point"} : setStopAsDestination(v)) \/ appendAITargetChoices
  <2>1. ASSUME NEW v \in {"text", "point"}, setStopAsDestination(v) PROVE ScreenInv'
    <3>1. [field EXCEPT !["to"] = v] \in [Fields -> Values]
      BY <1>2, <2>1 DEF Fields
    <3> QED BY <1>2, <1>5, <2>1, <3>1 DEF setStopAsDestination, Others
  <2>2. CASE appendAITargetChoices
    <3>1. [from |-> IF field["from"] = "empty" THEN "text" ELSE field["from"],
           to |-> "point"] \in [Fields -> Values]
      BY <1>2, <1>3
    <3> QED BY <1>2, <1>5, <2>2, <3>1 DEF appendAITargetChoices, Others
  <2> QED BY <1>7, <2>1, <2>2
<1>8. CASE AskCompute
  <2>1. PICK f \in [Fields -> Values], v \in 0..MaxVias : compute(f, v)
    <3>1. CASE \E from \in {field["from"], "text"}, v \in {vias, vias + 1} :
                  v <= MaxVias /\ compute([from |-> from, to |-> "text"], v)
      <4>1. PICK from \in {field["from"], "text"}, v \in {vias, vias + 1} :
                  v <= MaxVias /\ compute([from |-> from, to |-> "text"], v)
        BY <3>1
      <4>2. [from |-> from, to |-> "text"] \in [Fields -> Values] /\ v \in 0..MaxVias
        BY <1>2, <1>3, <4>1
      <4> QED BY <4>1, <4>2
    <3>2. CASE compute(field, vias)
      BY <1>2, <3>2
    <3> QED BY <1>8, <3>1, <3>2 DEF AskCompute
  <2> QED BY <1>5, <1>8, <2>1 DEF AskCompute
<1>9. CASE \E f \in Fields : RouteHere(f)
  <2>1. PICK f \in Fields : RouteHere(f)
    BY <1>9
  <2>2. [field EXCEPT ![f] = "point"] \in [Fields -> Values]
    BY <1>2
  <2>3. made' \in {made, made + 1} /\ field' = [field EXCEPT ![f] = "point"] /\ vias' = vias
    BY <2>1 DEF RouteHere, Starts
  <2>4. editing' = TRUE /\ UNCHANGED <<route, choices, locating>>
    BY <2>1 DEF RouteHere
  <2> QED BY <1>2, <1>4, <2>2, <2>3, <2>4 DEF ScreenInv
<1>10. CASE \/ \E f \in Fields : PickChoice(f) \/ TakeSuggestion(f)
            \/ \E f \in Fields, v \in Values : TypeField(f, v)
            \/ \E yes \in BOOLEAN : TakeDestination(yes)
            \/ LocationArrives
  <2>1. \/ field' = field
        \/ \E f \in Fields, v \in Values : field' = [field EXCEPT ![f] = v]
    BY <1>2, <1>10 DEF PickChoice, TakeSuggestion, TypeField, TakeDestination,
       LocationArrives, Fields
  <2>2. /\ made' = made /\ vias' = vias /\ route' = route
        /\ editing' = editing \/ editing' = TRUE
        /\ choices' \subseteq choices /\ locating' \in {locating, FALSE}
    BY <1>10 DEF PickChoice, TakeSuggestion, TypeField, TakeDestination, LocationArrives, Others
  <2>3. field' \in [Fields -> Values]
    BY <1>2, <2>1
  <2> QED BY <1>2, <1>4, <2>2, <2>3 DEF ScreenInv
<1>11. CASE useLocation \/ editRoute \/ clearRoute \/ clear \/ Reload
  <2>1. /\ made' = made /\ field' \in {field, [f \in Fields |-> "empty"]}
        /\ vias' \in {vias, 0} /\ choices' \in {choices, {}}
        /\ locating' \in {locating, TRUE, FALSE}
    BY <1>11 DEF useLocation, editRoute, clearRoute, clear, Reload, Erase, Others
  <2>2. /\ editing' \in {editing, TRUE, FALSE}
        /\ \/ route' = route /\ editing' = editing
           \/ route' = route /\ route # 0
           \/ route' = 0 /\ editing' = TRUE
    BY <1>2, <1>11 DEF useLocation, editRoute, clearRoute, clear, Reload, Erase, Others
  <2>3. vias' \in 0..MaxVias
    BY <1>1, <1>2, <2>1
  <2> QED BY <1>2, <1>4, <2>1, <2>2, <2>3 DEF ScreenInv
<1>12. CASE \E yes \in BOOLEAN : addWaypoint(yes)
  <2>1. /\ made' = made /\ vias < MaxVias /\ vias' = vias + 1
        /\ UNCHANGED <<field, route, editing, choices, locating>>
    BY <1>12 DEF addWaypoint, Others
  <2> QED BY <1>1, <1>2, <1>4, <2>1 DEF ScreenInv
<1>13. ASSUME NEW c \in calls, PositionArrives(c) \/ RouteAnswer(c)
       PROVE  ScreenInv'
  <2>1. UNCHANGED <<made, vias, locating>> /\ c.id \in 1..made
    BY <1>1, <1>13 DEF PositionArrives, RouteAnswer
  <2>2. CASE Fails(c)
    <3>1. /\ UNCHANGED <<field, route>>
          /\ editing' = TRUE \/ editing' = editing
          /\ choices' \subseteq Fields
      BY <1>2, <2>2 DEF Fails
    <3> QED BY <1>2, <1>4, <2>1, <3>1 DEF ScreenInv
  <2>3. CASE /\ field' = [field EXCEPT !["from"] = IF @ = "empty" THEN "point" ELSE @]
             /\ UNCHANGED <<route, editing, choices>>
    <3>1. field' \in [Fields -> Values]
      BY <1>2, <1>3, <2>3 DEF Fields
    <3> QED BY <1>2, <1>4, <2>1, <2>3, <3>1 DEF ScreenInv
  <2>4. CASE /\ route' = c.id /\ editing' = FALSE
             /\ \/ field' = [f \in Fields |-> "point"] /\ choices' = {}
                \/ UNCHANGED <<field, choices>>
    BY <1>2, <1>4, <2>1, <2>4 DEF ScreenInv
  <2> QED BY <1>13, <2>2, <2>3, <2>4 DEF PositionArrives, RouteAnswer
<1>14. ASSUME NEW q \in asks, AskAnswer(q) PROVE ScreenInv'
  <2>1. /\ UNCHANGED <<made, choices, locating>>
        /\ vias' = vias \/ (vias < MaxVias /\ vias' = vias + 1)
        /\ field' = field \/ field' \in [Fields -> Values]
    BY <1>14 DEF AskAnswer
  <2>2. \/ route' = q.id /\ editing' = FALSE
        \/ UNCHANGED <<route, editing>>
    BY <1>14 DEF AskAnswer
  <2>3. vias' \in 0..MaxVias
    BY <1>1, <1>2, <2>1
  <2>4. field' \in [Fields -> Values] /\ locating' \in BOOLEAN
    BY <1>2, <2>1 DEF ScreenInv
  <2>5. CASE route' = q.id /\ editing' = FALSE
    <3>1. route' \in 1..made /\ editing' \in BOOLEAN
      BY <1>1, <2>5
    <3> QED BY <1>2, <1>4, <2>1, <2>3, <2>4, <3>1
  <2>6. CASE UNCHANGED <<route, editing>>
    BY <1>2, <1>4, <2>1, <2>3, <2>4, <2>6
  <2> QED BY <2>2, <2>5, <2>6
<1>15. ASSUME made' \in {made, made + 1},
              UNCHANGED <<field, vias, route, editing, choices, locating>>
       PROVE  ScreenInv'
  BY <1>2, <1>4, <1>15 DEF ScreenInv
<1>16. CASE sendAIQuery \/ cancelAIQuery \/ \E q \in asks : AskComputed(q)
  BY <1>15, <1>16 DEF sendAIQuery, cancelAIQuery, AskComputed
<1>17. CASE StopStep
  BY <1>15, <1>17 DEF StopStep, AddMarker, deleteAllStopMarkers, deleteStopMarker, RouteVars
<1>18. CASE \/ (\E long \in BOOLEAN : onInput(long)) \/ hide \/ SuggestTimer
            \/ \E k \in box.requests : SuggestAnswer(k)
  BY <1>15, <1>18 DEF onInput, hide, SuggestTimer, SuggestAnswer, NoBox
<1>19. CASE UNCHANGED planVars
  BY <1>15, <1>19 DEF planVars
<1> QED BY <1>6, <1>7, <1>8, <1>9, <1>10, <1>11, <1>12, <1>13, <1>14, <1>16, <1>17,
           <1>18, <1>19
        DEF PlanNext, RouteStep, AskStep, SuggestStep

(* The page starts with no stop, no call and no question. *)
LEMMA PlanInitial == PlanInit => PlanInv
<1> SUFFICES ASSUME PlanInit PROVE PlanInv
  OBVIOUS
<1> USE RoutePlanAssumption DEF PlanInit
<1>1. MarkerInv
  BY EmptyIsNumbered DEF MarkerInv
<1>2. SuggestInv
  BY DEF SuggestInv, Closed
<1>3. CallsInv
  BY DEF CallsInv, Paired
<1>4. ScreenInv
  <2>1. "empty" \in Values /\ field = [f \in Fields |-> "empty"]
    BY DEF Values
  <2>2. field \in [Fields -> Values]
    BY <2>1
  <2>3. 0 \in 0..MaxVias /\ 0 \in 0..made
    OBVIOUS
  <2> QED BY <2>2, <2>3 DEF ScreenInv
<1> QED BY <1>1, <1>2, <1>3, <1>4 DEF PlanInv

(* PlanInv is inductive: it holds of every state of the route planning. *)
THEOREM PlanInvariant == PlanSpec => []PlanInv
<1>1. PlanInv /\ [PlanNext]_planVars => PlanInv'
  BY MarkersStep, SuggestionsStep, CallsStep, ScreenStep DEF PlanInv
<1> QED BY <1>1, PlanInitial, PTL DEF PlanSpec

(* Every variable of the planner has its type: what is numbered is known,
   and a wanted computation has a call. *)
THEOREM PlanTypeCorrect == PlanSpec => []PlanTypeOK
<1>1. PlanInv => PlanTypeOK
  <2> SUFFICES ASSUME PlanInv PROVE PlanTypeOK
    OBVIOUS
  <2> USE RoutePlanAssumption
  <2>1. /\ placed \in 0..MaxStops /\ stopSeq \in 1..(MaxStops + 1)
        /\ \A i \in 1..Len(stops) : stops[i] \in 1..(MaxStops + 1)
        /\ \A i \in 1..Len(stored) : stored[i] \in 1..(MaxStops + 1)
    <3>1. /\ placed \in 0..MaxStops /\ stopSeq \in 1..(placed + 1)
          /\ placed \in Nat /\ stopSeq \in Nat /\ MaxStops \in Nat
      BY DEF PlanInv, MarkerInv, Numbered
    <3>2. /\ \A i \in 1..Len(stops) : stops[i] \in Nat
          /\ \A i \in 1..Len(stored) : stored[i] \in Nat
      BY ElementOfSeq DEF PlanInv, MarkerInv, Numbered
    <3> QED BY <3>1, <3>2 DEF PlanInv, MarkerInv, Numbered
  <2>2. ASSUME NEW s \in Seq(Nat), NEW T, \A i \in 1..Len(s) : s[i] \in T
        PROVE  s \in Seq(T)
    <3>1. Len(s) \in Nat /\ DOMAIN s = 1..Len(s) /\ s = [i \in 1..Len(s) |-> s[i]]
      BY LenProperties
    <3>2. s \in [1..Len(s) -> T]
      BY <2>2, <3>1
    <3> QED BY <3>1, <3>2, SeqDef
  <2>3. stops \in Seq(1..(MaxStops + 1)) /\ stored \in Seq(1..(MaxStops + 1))
    BY <2>1, <2>2 DEF PlanInv, MarkerInv, Numbered
  <2> QED BY <2>1, <2>3 DEF PlanInv, MarkerInv, SuggestInv, CallsInv, ScreenInv, PlanTypeOK
<1> QED BY <1>1, PlanInvariant, PTL

(* The buttons of the planner and of the assistant are disabled exactly while
   the computation or the question that will enable them again is under way:
   a cancelled call that returns late, or one replaced by a newer one, neither
   enables the button of another one nor leaves it disabled. *)
THEOREM ButtonsWaitForTheirCall == PlanSpec => []BusyWhilePending
<1>1. PlanInv => BusyWhilePending
  <2> SUFFICES ASSUME PlanInv PROVE BusyWhilePending
    OBVIOUS
  <2>1. Paired(go.busy, go.req) /\ Paired(ai.busy, ai.id)
    BY DEF PlanInv, CallsInv
  <2> QED BY <2>1 DEF BusyWhilePending, Paired
<1> QED BY <1>1, PlanInvariant, PTL

(* Markers that are added, deleted, moved to the storage and restored by a new
   page never share a number. *)
THEOREM MarkersDiffer == PlanSpec => []StopNumbersDiffer
<1>1. PlanInv => StopNumbersDiffer
  <2> SUFFICES ASSUME PlanInv PROVE StopNumbersDiffer
    OBVIOUS
  <2>1. /\ stops \in Seq(Nat)
        /\ \A i, j \in 1..Len(stops) : stops[i] = stops[j] => i = j
    BY DEF PlanInv, MarkerInv, Numbered
  <2>2. DOMAIN stops = 1..Len(stops)
    BY <2>1
  <2> QED BY <2>1, <2>2, Zenon DEF StopNumbersDiffer
<1> QED BY <1>1, PlanInvariant, PTL

(* The suggestions shown are those for the newest input, in whatever order the
   requests for the earlier ones are answered. *)
THEOREM SuggestionsAreNewest == PlanSpec => []NewestSuggestions
<1>1. PlanInv => NewestSuggestions
  BY DEF PlanInv, SuggestInv, NewestSuggestions
<1> QED BY <1>1, PlanInvariant, PTL

(* A route is drawn only by a computation or question that has not been
   cancelled, whatever has been cancelled and asked again meanwhile. *)
THEOREM NothingAbandonedIsDrawn == PlanSpec => AbandonedIsNotDrawn
<1>1. ASSUME PlanInv, [PlanNext]_planVars
      PROVE  route' \notin {0, route} => route' \notin abandoned
  <2>1. SUFFICES ASSUME route' \notin {0, route} PROVE route' \notin abandoned
    OBVIOUS
  <2>2. CASE \E c \in calls : PositionArrives(c) \/ RouteAnswer(c)
    <3>1. PICK c \in calls : PositionArrives(c) \/ RouteAnswer(c)
      BY <2>2
    <3>2. go.req = c.id /\ route' = c.id
      BY <2>1, <3>1 DEF PositionArrives, RouteAnswer, Fails
    <3> QED BY <1>1, <3>2 DEF PlanInv, CallsInv
  <2>3. CASE \E q \in asks : AskAnswer(q)
    <3>1. PICK q \in asks : AskAnswer(q)
      BY <2>3
    <3>2. q.waits = 0 /\ ai.id = q.id /\ route' = q.id
      BY <2>1, <3>1 DEF AskAnswer
    <3> QED BY <1>1, <3>2 DEF PlanInv, CallsInv
  <2>4. CASE Go \/ DueCompute \/ (\E v \in {"text", "point"} : setStopAsDestination(v))
             \/ removeWaypoint \/ appendAITargetChoices \/ AskCompute
    BY <2>1, <2>4 DEF Go, DueCompute, setStopAsDestination, removeWaypoint,
       appendAITargetChoices, AskCompute, Others
  <2>5. CASE \/ \E f \in Fields : RouteHere(f) \/ PickChoice(f) \/ TakeSuggestion(f)
             \/ \E f \in Fields, v \in Values : TypeField(f, v)
             \/ \E yes \in BOOLEAN : TakeDestination(yes) \/ addWaypoint(yes)
    BY <2>1, <2>5 DEF RouteHere, PickChoice, TakeSuggestion, TypeField,
       TakeDestination, addWaypoint, Others
  <2>6. CASE \/ useLocation \/ LocationArrives \/ clearRoute \/ editRoute \/ clear
             \/ Reload \/ sendAIQuery \/ cancelAIQuery \/ \E q \in asks : AskComputed(q)
    BY <2>1, <2>6 DEF useLocation, LocationArrives, clearRoute, editRoute, clear,
       Erase, Reload, sendAIQuery, cancelAIQuery, AskComputed, Others
  <2>7. CASE StopStep
    BY <2>1, <2>7 DEF StopStep, AddMarker, deleteAllStopMarkers, deleteStopMarker, RouteVars
  <2>8. CASE \/ (\E long \in BOOLEAN : onInput(long)) \/ hide \/ SuggestTimer
             \/ \E k \in box.requests : SuggestAnswer(k)
    BY <2>1, <2>8 DEF onInput, hide, SuggestTimer, SuggestAnswer, NoBox
  <2>9. CASE UNCHANGED planVars
    BY <2>1, <2>9 DEF planVars
  <2> QED BY <1>1, <2>2, <2>3, <2>4, <2>5, <2>6, <2>7, <2>8, <2>9
          DEF PlanNext, RouteStep, AskStep, SuggestStep
<1> QED BY <1>1, PlanInvariant, PTL DEF PlanSpec, AbandonedIsNotDrawn

-----------------------------------------------------------------------------
(* The panel.                                                              *)

PanelStates ==
    [status : BuildStates, ui : BuildStates, timer : BOOLEAN,
     auto : BOOLEAN, requested : BOOLEAN, overlay : BOOLEAN]
Selections == [preset : Online \cup {"tinytiles", NoChoice}, form : TileChoices]

(* The requests to build. *)
GoodPosts(ps) ==
    /\ ps \subseteq [id : 1..MaxClicks, auto : BOOLEAN, answer : {"none", "ok", "conflict"}]
    /\ \A a, b \in ps : a.id = b.id => a = b

(* What the page knows of the build. *)
BuildInv ==
    /\ server \in BuildStates /\ panel \in PanelStates
    /\ fetching \in [why : Reasons, saw : BuildStates] \cup {NoFetch}
    /\ GoodPosts(posts)

(* The loads under way, each with the selection that it found. *)
Reached == {"startup", "preset", "custom", "tinytiles", "saved"}
Loads(n) == [gen : 1..n, source : TileChoices, applied : BOOLEAN, before : Selections,
             why : Reached]
LoadsInv ==
    /\ newest \in Nat
    /\ loads \subseteq Loads(newest)
    /\ \A a, b \in loads : a.gen = b.gen => a = b

SourceInv ==
    /\ shown \in TileChoices \cup {NoChoice} /\ choice \in Selections
    /\ presets \in BOOLEAN /\ saved \in TileChoices
    /\ saving \in [at : {"none", "reading"}, form : {NoChoice}]
                 \cup [at : {"writing"}, form : TileChoices]
    /\ welcome \in [dialog : {"hidden", "main", "choices"}, completed : BOOLEAN, deferred : BOOLEAN]
    /\ wants \in BOOLEAN /\ clicks \in 0..MaxClicks

(* Without the wish for it, nothing that loads the offline map, or makes an
   answer load it, is under way, selected or saved. *)
UnaskedInv ==
    ~wants =>
      /\ panel.auto = FALSE
      /\ fetching.why \notin {"select", "activate"}
      /\ \A r \in posts : r.auto = FALSE
      /\ "tinytiles" \notin {shown, choice.preset, choice.form, saving.form, saved}
      /\ \A l \in loads : /\ l.source # "tinytiles" /\ l.why # "tinytiles"
                          /\ l.before.form # "tinytiles" /\ l.before.preset # "tinytiles"

PanelInv == BuildInv /\ LoadsInv /\ SourceInv /\ UnaskedInv

(* A status leaves a sound panel: a build is polled, and the map is loaded
   only for one who waits for it. *)
LEMMA HandledPanel ==
    ASSUME NEW p \in PanelStates, NEW s \in BuildStates
    PROVE  /\ Handled(p, s) \in PanelStates /\ Handled(p, s).status = s
           /\ s \in Building => Handled(p, s).timer = TRUE
           /\ p.auto = FALSE => Handled(p, s).auto = FALSE
<1> DEFINE q == [p EXCEPT !.status = s, !.ui = s, !.timer = FALSE]
<1>0. "failed" \notin Building /\ "ready" \notin Building
  BY DEF Building
<1>1. /\ q \in PanelStates /\ q.status = s /\ q.auto = p.auto
  BY DEF PanelStates
<1> HIDE DEF q
<1>2. Handled(p, s) =
         CASE s \in Building -> [q EXCEPT !.timer = TRUE, !.overlay = q.overlay \/ p.requested]
           [] s = "failed" -> [q EXCEPT !.auto = FALSE, !.requested = FALSE,
                                        !.overlay = q.overlay /\ ~p.requested]
           [] s = "ready" /\ p.auto -> Requested([q EXCEPT !.auto = FALSE])
           [] OTHER -> q
  BY DEF Handled, q
<1>3. CASE s \in Building
  <2> DEFINE o == q.overlay \/ p.requested
  <2>1. o \in BOOLEAN
    OBVIOUS
  <2> HIDE DEF o
  <2>2. s # "failed" /\ ~(s = "ready" /\ p.auto)
    BY <1>0, <1>3
  <2>3. Handled(p, s) = [q EXCEPT !.timer = TRUE, !.overlay = o]
    BY <1>2, <1>3, <2>2 DEF o
  <2> QED BY <1>1, <1>3, <2>1, <2>3 DEF PanelStates
<1>4. CASE s = "failed"
  <2> DEFINE o == q.overlay /\ ~p.requested
  <2>1. o \in BOOLEAN
    OBVIOUS
  <2> HIDE DEF o
  <2>2. Handled(p, s) = [q EXCEPT !.auto = FALSE, !.requested = FALSE, !.overlay = o]
    BY <1>0, <1>2, <1>4 DEF o
  <2> QED BY <1>0, <1>1, <1>4, <2>1, <2>2 DEF PanelStates
<1>5. CASE s = "ready" /\ p.auto
  <2>1. Handled(p, s) = [q EXCEPT !.auto = FALSE, !.requested = TRUE, !.overlay = TRUE]
    BY <1>0, <1>1, <1>2, <1>5 DEF Requested, PanelStates
  <2> DEFINE r == [q EXCEPT !.auto = FALSE, !.requested = TRUE, !.overlay = TRUE]
  <2>2. r \in PanelStates /\ r.status = s
    BY <1>1 DEF PanelStates
  <2> HIDE DEF r
  <2>3. Handled(p, s) = r
    BY <2>1 DEF r
  <2> QED BY <1>0, <1>5, <2>2, <2>3
<1>6. CASE s \notin Building \cup {"failed"} /\ ~(s = "ready" /\ p.auto)
  <2>1. Handled(p, s) = q
    BY <1>2, <1>6
  <2> QED BY <1>1, <1>6, <2>1
<1> QED BY <1>3, <1>4, <1>5, <1>6

(* Covering and uncovering the map. *)
LEMMA OtherPanels ==
    ASSUME NEW p \in PanelStates, NEW b \in BOOLEAN
    PROVE  /\ \A q \in {Covered(p), Requested(p), GivenUp(p), [p EXCEPT !.overlay = FALSE],
                        [p EXCEPT !.requested = b]} :
                 /\ q \in PanelStates /\ q.auto = p.auto /\ q.timer = p.timer
                 /\ q.status = p.status
           /\ /\ [p EXCEPT !.auto = b] \in PanelStates
              /\ [p EXCEPT !.auto = b].timer = p.timer
              /\ [p EXCEPT !.auto = b].status = p.status
              /\ [p EXCEPT !.auto = b].auto = b
           /\ /\ [p EXCEPT !.timer = b] \in PanelStates
              /\ [p EXCEPT !.timer = b].timer = b
              /\ [p EXCEPT !.timer = b].status = p.status
              /\ [p EXCEPT !.timer = b].auto = p.auto
<1>1. \A q \in {Covered(p), [p EXCEPT !.overlay = FALSE]} :
         /\ q \in PanelStates /\ q.auto = p.auto /\ q.timer = p.timer
         /\ q.status = p.status
  BY DEF Covered, PanelStates
<1>2. \A q \in {Requested(p), GivenUp(p)} :
         /\ q \in PanelStates /\ q.auto = p.auto /\ q.timer = p.timer
         /\ q.status = p.status
  BY DEF Requested, GivenUp, PanelStates
<1>3. LET q == [p EXCEPT !.requested = b]
      IN  /\ q \in PanelStates /\ q.auto = p.auto /\ q.timer = p.timer
          /\ q.status = p.status
  BY DEF PanelStates
<1>4. /\ [p EXCEPT !.auto = b] \in PanelStates
      /\ [p EXCEPT !.auto = b].timer = p.timer
      /\ [p EXCEPT !.auto = b].status = p.status
      /\ [p EXCEPT !.auto = b].auto = b
  BY DEF PanelStates
<1>5. /\ [p EXCEPT !.timer = b] \in PanelStates
      /\ [p EXCEPT !.timer = b].timer = b
      /\ [p EXCEPT !.timer = b].status = p.status
      /\ [p EXCEPT !.timer = b].auto = p.auto
  BY DEF PanelStates
<1> QED BY <1>1, <1>2, <1>3, <1>4, <1>5

(* New loads get numbers of their own. *)
LEMMA LoadsGrow ==
    ASSUME LoadsInv, choice \in Selections, NEW k \in Nat, NEW s \in TileChoices,
           NEW why \in Reached, newest' = newest + k,
           loads' = loads \cup {Call(newest + i, s, why) : i \in 1..k}
    PROVE  LoadsInv'
<1> DEFINE new == {Call(newest + i, s, why) : i \in 1..k}
<1>1. newest \in Nat /\ newest' \in Nat
  BY DEF LoadsInv
<1>2. \A l \in loads : l \in Loads(newest) /\ l.gen \in 1..newest
  BY DEF LoadsInv, Loads
<1>3. \A l \in loads : l \in Loads(newest')
  BY <1>1, <1>2 DEF Loads
<1>4. ASSUME NEW l \in new
      PROVE  /\ l \in Loads(newest') /\ l.gen \in Nat /\ l.gen > newest
             /\ l = Call(l.gen, s, why)
  <2>1. PICK i \in 1..k : l = Call(newest + i, s, why)
    OBVIOUS
  <2>2. newest + i \in 1..newest' /\ newest + i > newest /\ newest + i \in Nat
    BY <1>1
  <2> QED BY <2>1, <2>2 DEF Call, Loads
<1> HIDE DEF new
<1>5. loads' = loads \cup new
  BY DEF new
<1>6. ASSUME NEW a \in loads', NEW b \in loads', a.gen = b.gen PROVE a = b
  <2>1. CASE a \in loads /\ b \in loads
    BY <1>6, <2>1 DEF LoadsInv
  <2>2. CASE a \in new /\ b \in new
    BY <1>4, <1>6, <2>2
  <2>3. CASE (a \in loads /\ b \in new) \/ (a \in new /\ b \in loads)
    BY <1>1, <1>2, <1>4, <1>6, <2>3
  <2> QED BY <1>5, <2>1, <2>2, <2>3
<1> QED BY <1>1, <1>3, <1>4, <1>5, <1>6 DEF LoadsInv

(* A load that begins has the next number, and the choice it would undo. *)
LEMMA LoadKeepsLoads ==
    ASSUME LoadsInv, choice \in Selections, NEW s \in TileChoices,
           NEW why \in Reached, Load(s, why)
    PROVE  LoadsInv'
<1>1. {Call(newest + i, s, why) : i \in 1..1} = {Call(newest + 1, s, why)}
  OBVIOUS
<1> QED BY <1>1, LoadsGrow DEF Load

(* The activation of an offline map loads at most one source. *)
LEMMA ActivationKeepsLoads ==
    ASSUME LoadsInv, choice \in Selections, NEW k \in Nat, activateTinyTilesMap(k)
    PROVE  LoadsInv' /\ (k = 0 => loads' = loads)
<1>1. "tinytiles" \in TileChoices
  BY DEF TileChoices
<1>2. LoadsInv'
  BY <1>1, LoadsGrow DEF activateTinyTilesMap, Reached
<1>3. k = 0 => loads' = loads
  BY DEF activateTinyTilesMap
<1> QED BY <1>2, <1>3

(* A build is asked for: the panel follows it. *)
LEMMA StartKeepsPanel ==
    ASSUME NEW p \in PanelStates, NEW auto \in BOOLEAN, startTinyTilesBuild(p, auto),
           GoodPosts(posts)
    PROVE  /\ panel' \in PanelStates
           /\ GoodPosts(posts')
           /\ p.auto = FALSE => panel'.auto = FALSE
           /\ \A r \in posts' : r \in posts \/ r.auto = auto
           /\ panel' = p \/ panel'.timer = TRUE
           /\ panel' = p => posts \subseteq posts'
<1>1. CASE panel' = p /\ UNCHANGED posts
  BY <1>1
<1>2. CASE /\ panel' = Handled([p EXCEPT !.requested = auto], "building")
           /\ Post(auto)
  <2> DEFINE q == [p EXCEPT !.requested = auto]
  <2>1. q \in PanelStates /\ q.auto = p.auto /\ panel' = Handled(q, "building")
    BY <1>2 DEF PanelStates
  <2> HIDE DEF q
  <2>2. /\ panel' \in PanelStates /\ panel'.timer = TRUE
        /\ p.auto = FALSE => panel'.auto = FALSE
    <3>1. "building" \in BuildStates /\ "building" \in Building
      BY DEF BuildStates, Building
    <3>2. q \in PanelStates
      BY <2>1
    <3>3. /\ Handled(q, "building") \in PanelStates
          /\ Handled(q, "building").timer = TRUE
          /\ q.auto = FALSE => Handled(q, "building").auto = FALSE
      BY <3>1, <3>2, HandledPanel
    <3> QED BY <2>1, <3>3
  <2>3. /\ GoodPosts(posts')
        /\ posts \subseteq posts'
        /\ \A r \in posts' : r \in posts \/ r.auto = auto
    <3>1. PICK id \in 1..MaxClicks :
             /\ \A r \in posts : r.id # id
             /\ posts' = posts \cup {[id |-> id, auto |-> auto, answer |-> "none"]}
      <4>1. PICK id \in 1..MaxClicks :
               /\ \A n \in 1..id : n = id <=> \A r \in posts : r.id # n
               /\ posts' = posts \cup {[id |-> id, auto |-> auto, answer |-> "none"]}
        BY <1>2 DEF Post
      <4>2. id \in 1..id
        BY PanelAssumption
      <4> QED BY <4>1, <4>2
    <3> DEFINE new == [id |-> id, auto |-> auto, answer |-> "none"]
    <3>2. /\ new \in [id : 1..MaxClicks, auto : BOOLEAN, answer : {"none", "ok", "conflict"}]
          /\ new.auto = auto /\ new.id = id
      OBVIOUS
    <3> HIDE DEF new
    <3>3. posts' = posts \cup {new}
      BY <3>1 DEF new
    <3>4. \A a, b \in posts' : a.id = b.id => a = b
      BY <3>1, <3>2, <3>3 DEF GoodPosts
    <3> QED BY <3>2, <3>3, <3>4 DEF GoodPosts
  <2> QED BY <2>2, <2>3, Zenon
<1> QED BY <1>1, <1>2 DEF startTinyTilesBuild

(* What goes on after the status s: with the panel p as it is by then, it
   keeps the loads, asks for no map when it was not asked to, and a panel that
   shows a build keeps its timer. *)
LEMMA ContinueKeepsPanel ==
    ASSUME NEW p \in PanelStates, NEW s \in BuildStates \cup {NoChoice},
           NEW why \in Reasons, NEW already \in {0, 1}, Continue(why, p, s, already),
           LoadsInv, choice \in Selections,
           GoodPosts(posts)
    PROVE  /\ panel' \in PanelStates /\ LoadsInv'
           /\ GoodPosts(posts')
           /\ p.auto = FALSE /\ why \notin {"select", "activate"} /\ already = 0 =>
                 panel'.auto = FALSE /\ posts' = posts /\ loads' = loads
           /\ \/ panel'.timer = TRUE
              \/ panel'.status = p.status /\ panel'.timer = p.timer /\ posts \subseteq posts'
              \/ panel'.status = "failed"
<1>0. UNCHANGED <<loads, newest>> => LoadsInv'
  BY DEF LoadsInv
<1>1. CASE /\ panel' = p /\ activateTinyTilesMap(already) /\ UNCHANGED posts
  BY <1>1, ActivationKeepsLoads
<1>2. CASE /\ why = "poll" /\ panel' = [p EXCEPT !.timer = TRUE]
           /\ UNCHANGED <<posts, loads, newest>>
  <2>1. /\ panel' \in PanelStates /\ panel'.timer = TRUE /\ panel'.auto = p.auto
    BY <1>2, OtherPanels
  <2> QED BY <1>0, <1>2, <2>1
<1>3. CASE /\ why = "conflict"
           /\ panel' = Handled(GivenUp([p EXCEPT !.auto = FALSE]), "failed")
           /\ UNCHANGED <<posts, loads, newest>>
  <2>1. [p EXCEPT !.auto = FALSE] \in PanelStates /\ [p EXCEPT !.auto = FALSE].auto = FALSE
    BY OtherPanels
  <2>2. /\ GivenUp([p EXCEPT !.auto = FALSE]) \in PanelStates
        /\ GivenUp([p EXCEPT !.auto = FALSE]).auto = FALSE
    BY <2>1, OtherPanels
  <2>3. panel' \in PanelStates /\ panel'.status = "failed" /\ panel'.auto = FALSE
    BY <1>3, <2>2, HandledPanel DEF BuildStates
  <2> QED BY <1>0, <1>3, <2>3
<1>4. CASE /\ why \in {"select", "activate"}
           /\ panel' = Requested(p) /\ activateTinyTilesMap(already + 1) /\ UNCHANGED posts
  <2>1. already + 1 \in Nat
    OBVIOUS
  <2> QED BY <1>4, <2>1, OtherPanels, ActivationKeepsLoads
<1>5. CASE /\ why = "select" /\ panel' = GivenUp(p) /\ UNCHANGED <<posts, loads, newest>>
  <2>1. /\ panel' \in PanelStates /\ panel'.timer = p.timer /\ panel'.status = p.status
    BY <1>5, OtherPanels
  <2> QED BY <1>0, <1>5, <2>1
<1>6. CASE /\ why = "select" /\ panel' = [p EXCEPT !.auto = TRUE]
           /\ UNCHANGED <<posts, loads, newest>>
  <2>1. /\ panel' \in PanelStates /\ panel'.timer = p.timer /\ panel'.status = p.status
    BY <1>6, OtherPanels
  <2> QED BY <1>0, <1>6, <2>1
<1>7. CASE /\ why = "select" /\ startTinyTilesBuild(p, TRUE) /\ UNCHANGED <<loads, newest>>
  <2>1. /\ panel' \in PanelStates /\ GoodPosts(posts')
        /\ panel' = p \/ panel'.timer = TRUE
        /\ panel' = p => posts \subseteq posts'
    BY <1>7, StartKeepsPanel
  <2>2. LoadsInv'
    BY <1>0, <1>7
  <2> QED BY <1>7, <2>1, <2>2
<1> QED BY <1>1, <1>2, <1>3, <1>4, <1>5, <1>6, <1>7 DEF Continue

(* The request of a status. *)
LEMMA FetchKeepsPanel ==
    ASSUME NEW p \in PanelStates, NEW why \in Reasons, fetchTinyTilesStatus(why, p),
           BuildInv, LoadsInv, choice \in Selections, UNCHANGED server
    PROVE  /\ BuildInv' /\ LoadsInv' /\ fetching' # NoFetch
           /\ fetching' = fetching \/ fetching'.why = why
           /\ p.auto = FALSE /\ why \notin {"select", "activate"} =>
                 panel'.auto = FALSE /\ posts' = posts /\ loads' = loads
<1>1. CASE fetching = NoFetch
  <2>1. /\ fetching' = [why |-> why, saw |-> server]
        /\ panel' = p /\ UNCHANGED <<posts, loads, newest>>
    BY <1>1 DEF fetchTinyTilesStatus
  <2>2. server \in BuildStates
    BY DEF BuildInv
  <2>3. why # "none"
    BY DEF Reasons
  <2> QED BY <2>1, <2>2, <2>3 DEF BuildInv, LoadsInv, NoFetch
<1>2. CASE fetching # NoFetch
  <2>1. Continue(why, p, p.status, 0) /\ UNCHANGED fetching
    BY <1>2 DEF fetchTinyTilesStatus
  <2>2. p.status \in BuildStates \cup {NoChoice}
    BY DEF PanelStates
  <2>3. GoodPosts(posts)
    BY DEF BuildInv
  <2>4. /\ panel' \in PanelStates /\ LoadsInv'
        /\ GoodPosts(posts')
        /\ p.auto = FALSE /\ why \notin {"select", "activate"} =>
              panel'.auto = FALSE /\ posts' = posts /\ loads' = loads
    BY <2>1, <2>2, <2>3, ContinueKeepsPanel
  <2> QED BY <1>2, <2>1, <2>4 DEF BuildInv
<1> QED BY <1>1, <1>2

(* The status arrives, or nothing. *)
LEMMA AnswerKeepsPanel ==
    ASSUME PanelInv, StatusArrives \/ FetchFails
    PROVE  BuildInv' /\ LoadsInv' /\ UnaskedInv'
<1>1. /\ fetching # NoFetch /\ fetching' = NoFetch /\ UNCHANGED <<server, sourceVars, wants>>
  BY DEF StatusArrives, FetchFails
<1>2. /\ fetching.why \in Reasons /\ fetching.saw \in BuildStates
      /\ server \in BuildStates /\ panel \in PanelStates /\ choice \in Selections
      /\ GoodPosts(posts)
      /\ LoadsInv
  BY <1>1 DEF PanelInv, BuildInv, SourceInv
<1>3. PICK p \in PanelStates, s \in BuildStates \cup {NoChoice}, already \in {0, 1} :
         /\ Continue(fetching.why, p, s, already)
         /\ panel.auto = FALSE => p.auto = FALSE /\ already = 0
  <2>1. CASE StatusArrives
    <3> DEFINE s == fetching.saw
    <3>1. Continue(fetching.why, Handled(panel, s), s, ActivatesNow(panel, s))
      BY <2>1 DEF StatusArrives
    <3> HIDE DEF s
    <3>2. s \in BuildStates /\ panel \in PanelStates
      BY <1>2 DEF s
    <3>3. /\ Handled(panel, s) \in PanelStates
          /\ panel.auto = FALSE => Handled(panel, s).auto = FALSE
      BY <3>2, HandledPanel
    <3>4. /\ ActivatesNow(panel, s) \in {0, 1}
          /\ panel.auto = FALSE => ActivatesNow(panel, s) = 0
      BY DEF ActivatesNow
    <3> QED BY <3>1, <3>2, <3>3, <3>4
  <2>2. CASE FetchFails
    <3> DEFINE q == [panel EXCEPT !.timer = FALSE,
                                  !.ui = IF fetching.why = "poll" THEN @ ELSE "idle"]
    <3>1. q \in PanelStates /\ q.auto = panel.auto
      BY <1>2 DEF PanelStates, BuildStates
    <3>2. Continue(fetching.why, q, NoChoice, 0)
      BY <2>2 DEF FetchFails
    <3> HIDE DEF q
    <3> QED BY <3>1, <3>2
  <2> QED BY <2>1, <2>2
<1>4. /\ panel' \in PanelStates /\ LoadsInv'
      /\ GoodPosts(posts')
      /\ p.auto = FALSE /\ fetching.why \notin {"select", "activate"} /\ already = 0 =>
            panel'.auto = FALSE /\ posts' = posts /\ loads' = loads
  BY <1>2, <1>3, ContinueKeepsPanel
<1>5. BuildInv'
  BY <1>1, <1>2, <1>4 DEF BuildInv
<1>6. UnaskedInv'
  <2>1. SUFFICES ASSUME ~wants PROVE UnaskedInv'
    BY <1>1 DEF UnaskedInv
  <2>2. /\ UnaskedInv /\ panel'.auto = FALSE /\ posts' = posts /\ loads' = loads
    BY <1>3, <1>4, <2>1 DEF PanelInv, UnaskedInv
  <2>3. fetching'.why \notin {"select", "activate"}
    BY <1>1 DEF NoFetch
  <2> QED BY <1>1, <2>1, <2>2, <2>3 DEF UnaskedInv, sourceVars
<1> QED BY <1>4, <1>5, <1>6

(* The clicks and timers that ask for the status. *)
LEMMA FetchesKeepPanel ==
    ASSUME PanelInv,
           \/ scheduleTinyTilesPolling \/ ActivateButton
           \/ \E fromWelcome \in BOOLEAN : selectTinyTilesSource(fromWelcome)
    PROVE  BuildInv' /\ LoadsInv' /\ UnaskedInv'
<1>1. PICK p \in PanelStates, why \in Reasons :
         /\ fetchTinyTilesStatus(why, p) /\ p.auto = panel.auto
         /\ why \in {"select", "activate"} => wants
         /\ ~wants => UNCHANGED <<shown, choice, presets, saving, saved, wants>>
         /\ UNCHANGED <<server, wants>>
  <2>1. panel \in PanelStates
    BY DEF PanelInv, BuildInv
  <2>2. CASE scheduleTinyTilesPolling
    <3>1. /\ [panel EXCEPT !.timer = FALSE] \in PanelStates
          /\ [panel EXCEPT !.timer = FALSE].auto = panel.auto
      BY <2>1, OtherPanels
    <3>2. "poll" \in Reasons
      BY DEF Reasons
    <3> QED BY <2>2, <3>1, <3>2 DEF scheduleTinyTilesPolling, sourceVars
  <2>3. CASE ActivateButton
    <3>1. "activate" \in Reasons
      BY DEF Reasons
    <3> QED BY <2>1, <2>3, <3>1 DEF ActivateButton, sourceVars
  <2>4. CASE \E fromWelcome \in BOOLEAN : selectTinyTilesSource(fromWelcome)
    <3>1. Requested(panel) \in PanelStates /\ Requested(panel).auto = panel.auto
      BY <2>1, OtherPanels
    <3>2. "select" \in Reasons
      BY DEF Reasons
    <3>3. fetchTinyTilesStatus("select", Requested(panel)) /\ wants /\ UNCHANGED <<server, wants>>
      BY <2>4 DEF selectTinyTilesSource
    <3> QED BY <3>1, <3>2, <3>3
  <2> QED BY <2>2, <2>3, <2>4
<1>2. /\ BuildInv' /\ LoadsInv' /\ fetching' # NoFetch
      /\ fetching' = fetching \/ fetching'.why = why
      /\ p.auto = FALSE /\ why \notin {"select", "activate"} =>
            panel'.auto = FALSE /\ posts' = posts /\ loads' = loads
  BY <1>1, FetchKeepsPanel DEF PanelInv, SourceInv
<1>3. UnaskedInv'
  <2>1. SUFFICES ASSUME ~wants PROVE UnaskedInv'
    BY <1>1 DEF UnaskedInv
  <2>2. /\ UnaskedInv /\ why \notin {"select", "activate"} /\ p.auto = FALSE
    BY <1>1, <2>1 DEF PanelInv, UnaskedInv
  <2>3. UNCHANGED <<shown, choice, presets, saving, saved, wants, posts, loads>>
        /\ panel'.auto = FALSE /\ fetching'.why \notin {"select", "activate"}
    BY <1>1, <1>2, <2>1, <2>2 DEF UnaskedInv
  <2> QED BY <2>1, <2>2, <2>3 DEF UnaskedInv
<1> QED BY <1>2, <1>3

(* The requests to build. *)
LEMMA PostsKeepPanel ==
    ASSUME PanelInv,
           \/ \E r \in posts : PostArrives(r) \/ PostAnswer(r)
           \/ \E auto \in BOOLEAN : BuildButton(auto)
           \/ ServerMoves
    PROVE  BuildInv' /\ LoadsInv' /\ UnaskedInv'
<1> DEFINE Calls == [id : 1..MaxClicks, auto : BOOLEAN, answer : {"none", "ok", "conflict"}]
<1>1. /\ server \in BuildStates /\ panel \in PanelStates /\ GoodPosts(posts)
      /\ fetching \in [why : Reasons, saw : BuildStates] \cup {NoFetch}
      /\ \A r \in posts : /\ r \in Calls /\ r.auto \in BOOLEAN
                          /\ (~wants => r.auto = FALSE)
      /\ ~wants => panel.auto = FALSE
  BY DEF PanelInv, BuildInv, GoodPosts, UnaskedInv
<1>2. ASSUME UNCHANGED <<loads, newest, shown, choice, presets, saving, saved, wants>>,
             server' \in BuildStates, panel' \in PanelStates, GoodPosts(posts'),
             \/ fetching' = fetching
             \/ \E s \in BuildStates : fetching' = [why |-> "conflict", saw |-> s]
             \/ \E s \in BuildStates :
                   fetching # NoFetch /\ fetching' = [why |-> fetching.why, saw |-> s],
             ~wants => panel'.auto = FALSE,
             ~wants => \A r \in posts' : r.auto = FALSE
      PROVE  BuildInv' /\ LoadsInv' /\ UnaskedInv'
  <2>1. "conflict" \in Reasons
    BY DEF Reasons
  <2>2. fetching' \in [why : Reasons, saw : BuildStates] \cup {NoFetch}
    BY <1>1, <1>2, <2>1
  <2>3. fetching'.why = fetching.why \/ fetching'.why = "conflict"
    BY <1>2
  <2>4. BuildInv' /\ LoadsInv'
    BY <1>2, <2>2 DEF BuildInv, LoadsInv, PanelInv
  <2>5. UnaskedInv'
    BY <1>2, <2>3 DEF PanelInv, UnaskedInv
  <2> QED BY <2>4, <2>5
<1>3. ASSUME Seen, server' \in BuildStates
      PROVE  \/ fetching' = fetching
             \/ fetching # NoFetch /\ fetching' = [why |-> fetching.why, saw |-> server']
  BY <1>1, <1>3 DEF Seen
<1>4. ASSUME NEW r \in posts, PostArrives(r) PROVE BuildInv' /\ LoadsInv' /\ UnaskedInv'
  <2>1. UNCHANGED <<loads, newest, shown, choice, presets, saving, saved, wants, panel>>
    BY <1>4 DEF PostArrives, sourceVars
  <2>2. PICK a \in {"ok", "conflict"} : posts' = (posts \ {r}) \cup {[r EXCEPT !.answer = a]}
    BY <1>4 DEF PostArrives
  <2>3. /\ [r EXCEPT !.answer = a] \in Calls /\ [r EXCEPT !.answer = a].auto = r.auto
        /\ [r EXCEPT !.answer = a].id = r.id
    BY <1>1
  <2>4. GoodPosts(posts') /\ (~wants => \A q \in posts' : q.auto = FALSE)
    <3> DEFINE n == [r EXCEPT !.answer = a]
    <3>1. n \in Calls /\ n.auto = r.auto /\ n.id = r.id /\ posts' = (posts \ {r}) \cup {n}
      BY <2>2, <2>3
    <3> HIDE DEF n
    <3> QED BY <1>1, <3>1 DEF GoodPosts
  <2>5. /\ server' \in BuildStates
        /\ \/ fetching' = fetching
           \/ fetching # NoFetch /\ fetching' = [why |-> fetching.why, saw |-> server']
    <3>1. CASE UNCHANGED <<server, fetching>>
      BY <1>1, <3>1
    <3>2. CASE server' = (IF r.auto THEN "building" ELSE "postal") /\ Seen
      <4>1. server' \in BuildStates
        BY <3>2 DEF BuildStates, Building
      <4> QED BY <1>3, <3>2, <4>1
    <3> QED BY <1>4, <3>1, <3>2 DEF PostArrives
  <2> QED BY <1>1, <1>2, <2>1, <2>4, <2>5
<1>5. ASSUME NEW r \in posts, PostAnswer(r) PROVE BuildInv' /\ LoadsInv' /\ UnaskedInv'
  <2>1. /\ UNCHANGED <<server, loads, newest, shown, choice, presets, saving, saved, wants>>
        /\ GoodPosts(posts') /\ (~wants => \A q \in posts' : q.auto = FALSE)
    BY <1>1, <1>5 DEF PostAnswer, sourceVars, GoodPosts
  <2>2. /\ [panel EXCEPT !.auto = r.auto] \in PanelStates
        /\ [panel EXCEPT !.auto = r.auto].auto = r.auto
        /\ [panel EXCEPT !.auto = FALSE] \in PanelStates
        /\ [panel EXCEPT !.auto = FALSE].auto = FALSE
    <3>1. r.auto \in BOOLEAN /\ FALSE \in BOOLEAN /\ panel \in PanelStates
      BY <1>1
    <3>2. /\ [panel EXCEPT !.auto = r.auto] \in PanelStates
          /\ [panel EXCEPT !.auto = r.auto].auto = r.auto
      BY <3>1 DEF PanelStates
    <3>3. /\ [panel EXCEPT !.auto = FALSE] \in PanelStates
          /\ [panel EXCEPT !.auto = FALSE].auto = FALSE
      BY <3>1, OtherPanels
    <3> QED BY <3>2, <3>3
  <2>3. /\ GivenUp([panel EXCEPT !.auto = FALSE]) \in PanelStates
        /\ GivenUp([panel EXCEPT !.auto = FALSE]).auto = FALSE
    BY <2>2, OtherPanels
  <2>4. PICK p \in {[panel EXCEPT !.auto = r.auto], GivenUp([panel EXCEPT !.auto = FALSE])},
             s \in Building \cup {"failed"} :
           panel' = p \/ panel' = Handled(p, s)
    BY <1>5 DEF PostAnswer, Building
  <2>5. p \in PanelStates /\ (p.auto = FALSE \/ p.auto = r.auto)
    BY <2>2, <2>3, <2>4
  <2>6. /\ Handled(p, s) \in PanelStates
        /\ p.auto = FALSE => Handled(p, s).auto = FALSE
    <3>1. s \in BuildStates
      BY DEF BuildStates, Building
    <3> QED BY <2>5, <3>1, HandledPanel
  <2>7. panel' \in PanelStates /\ (~wants => panel'.auto = FALSE)
    BY <1>1, <2>4, <2>5, <2>6
  <2>8. \/ fetching' = fetching
        \/ fetching' = [why |-> "conflict", saw |-> server]
    BY <1>5 DEF PostAnswer
  <2> QED BY <1>1, <1>2, <2>1, <2>7, <2>8
<1>6. ASSUME NEW auto \in BOOLEAN, BuildButton(auto)
      PROVE  BuildInv' /\ LoadsInv' /\ UnaskedInv'
  <2>1. /\ UNCHANGED <<server, fetching, loads, newest, shown, choice, presets, saving, saved, wants>>
        /\ startTinyTilesBuild(panel, auto) /\ (~wants => auto = FALSE)
    BY <1>6 DEF BuildButton, sourceVars
  <2>2. /\ panel' \in PanelStates /\ GoodPosts(posts')
        /\ panel.auto = FALSE => panel'.auto = FALSE
        /\ \A r \in posts' : r \in posts \/ r.auto = auto
    BY <1>1, <2>1, StartKeepsPanel
  <2> QED BY <1>1, <1>2, <2>1, <2>2
<1>7. CASE ServerMoves
  <2>1. /\ UNCHANGED <<panel, posts, loads, newest, shown, choice, presets, saving, saved, wants>>
        /\ server' \in BuildStates /\ Seen
    BY <1>7 DEF ServerMoves, sourceVars, BuildStates
  <2> QED BY <1>1, <1>2, <1>3, <2>1
<1> QED BY <1>4, <1>5, <1>6, <1>7

(* A load that takes over the map keeps its number. *)
LEMMA LoadAppliesKeepsPanel ==
    ASSUME PanelInv, NEW l \in loads, LoadApplies(l)
    PROVE  PanelInv'
<1> DEFINE m == [l EXCEPT !.applied = TRUE]
<1>1. /\ loads' = (loads \ {l}) \cup {m} /\ shown' = l.source
      /\ UNCHANGED <<server, panel, fetching, posts, newest, choice, presets, saving, saved,
                     welcome, wants, clicks>>
  BY DEF LoadApplies, buildVars
<1>2. /\ l \in Loads(newest) /\ l.source \in TileChoices
      /\ m \in Loads(newest) /\ m.gen = l.gen /\ m.source = l.source
      /\ m.why = l.why /\ m.before = l.before
  BY DEF PanelInv, LoadsInv, Loads
<1> HIDE DEF m
<1>3. LoadsInv'
  BY <1>1, <1>2 DEF PanelInv, LoadsInv
<1>4. BuildInv' /\ SourceInv'
  BY <1>1, <1>2 DEF PanelInv, BuildInv, SourceInv
<1>5. UnaskedInv'
  BY <1>1, <1>2 DEF PanelInv, UnaskedInv
<1> QED BY <1>3, <1>4, <1>5 DEF PanelInv

(* The end of a load puts back no selection that had not been there. *)
LEMMA LoadEndsKeepsPanel ==
    ASSUME PanelInv, NEW l \in loads, LoadEnds(l)
    PROVE  PanelInv'
<1>1. /\ loads' = loads \ {l}
      /\ UNCHANGED <<server, fetching, posts, newest, shown, presets, saving, saved, welcome, wants,
                     clicks>>
  BY DEF LoadEnds
<1>2. /\ l.source \in TileChoices /\ l.before \in Selections /\ panel \in PanelStates
      /\ choice \in Selections /\ shown \in TileChoices \cup {NoChoice}
  BY DEF PanelInv, LoadsInv, Loads, BuildInv, SourceInv
<1>3. panel' \in PanelStates /\ panel'.auto = panel.auto
  <2>1. panel' \in {GivenUp(panel), [panel EXCEPT !.overlay = FALSE], panel}
    BY DEF LoadEnds
  <2>2. GivenUp(panel) \in PanelStates /\ GivenUp(panel).auto = panel.auto
    BY <1>2 DEF PanelStates, GivenUp
  <2>3. /\ [panel EXCEPT !.overlay = FALSE] \in PanelStates
        /\ [panel EXCEPT !.overlay = FALSE].auto = panel.auto
    BY <1>2 DEF PanelStates
  <2> QED BY <1>2, <2>1, <2>2, <2>3
<1>4. \/ choice' = choice \/ choice' = l.before
      \/ l.why = "tinytiles" /\ choice' = [preset |-> "tinytiles", form |-> "tinytiles"]
  BY DEF LoadEnds
<1>5. shown' \in TileChoices \cup {NoChoice} /\ choice' \in Selections
  <2>1. [preset |-> "tinytiles", form |-> "tinytiles"] \in Selections
    BY DEF Selections, TileChoices
  <2> QED BY <1>1, <1>2, <1>4, <2>1
<1>6. BuildInv' /\ LoadsInv' /\ SourceInv'
  BY <1>1, <1>3, <1>5 DEF PanelInv, BuildInv, LoadsInv, SourceInv
<1>7. UnaskedInv'
  <2>1. SUFFICES ASSUME ~wants PROVE UnaskedInv'
    BY <1>1 DEF UnaskedInv
  <2>2. /\ "tinytiles" \notin {shown, choice.preset, choice.form, l.source, l.before.form,
                               l.before.preset}
        /\ l.why # "tinytiles"
    BY <2>1 DEF PanelInv, UnaskedInv
  <2>3. "tinytiles" \notin {shown', choice'.preset, choice'.form}
    BY <1>1, <1>4, <2>2
  <2> QED BY <1>1, <1>3, <2>1, <2>3 DEF PanelInv, UnaskedInv
<1> QED BY <1>6, <1>7 DEF PanelInv

(* What asks for the status or a build changes only the selection. *)
LEMMA BuildStepKeepsSources ==
    ASSUME PanelInv,
           \/ StatusArrives \/ FetchFails \/ scheduleTinyTilesPolling
           \/ \E r \in posts : PostArrives(r) \/ PostAnswer(r)
           \/ ServerMoves \/ ActivateButton
           \/ \E fromWelcome \in BOOLEAN : selectTinyTilesSource(fromWelcome)
           \/ \E auto \in BOOLEAN : BuildButton(auto)
    PROVE  SourceInv'
<1> USE PanelAssumption
<1>1. SourceInv /\ clicks \in Nat
  BY DEF PanelInv, SourceInv
<1>2. /\ UNCHANGED <<shown, presets, saving, saved, wants>>
      /\ \/ choice' = choice
         \/ choice' = [preset |-> "tinytiles",
                       form |-> IF presets THEN "tinytiles" ELSE choice.form]
  BY DEF StatusArrives, FetchFails, scheduleTinyTilesPolling, PostArrives, PostAnswer,
     ServerMoves, ActivateButton, selectTinyTilesSource, BuildButton, sourceVars
<1>3. clicks' = clicks \/ Click
  BY DEF StatusArrives, FetchFails, scheduleTinyTilesPolling, PostArrives, PostAnswer,
     ServerMoves, ActivateButton, selectTinyTilesSource, BuildButton
<1>4. clicks' \in 0..MaxClicks
  BY <1>1, <1>3 DEF SourceInv, Click
<1>5. \/ welcome' = welcome
      \/ welcome' = [welcome EXCEPT !.dialog = "hidden", !.completed = TRUE]
  BY DEF StatusArrives, FetchFails, scheduleTinyTilesPolling, PostArrives, PostAnswer,
     ServerMoves, ActivateButton, selectTinyTilesSource, BuildButton, WelcomeEnds
<1>6. welcome' \in [dialog : {"hidden", "main", "choices"}, completed : BOOLEAN,
                    deferred : BOOLEAN]
  BY <1>1, <1>5 DEF SourceInv
<1>7. choice' \in Selections
  <2>1. choice \in Selections
    BY <1>1 DEF SourceInv
  <2>2. (IF presets THEN "tinytiles" ELSE choice.form) \in TileChoices
    BY <2>1 DEF Selections, TileChoices
  <2> QED BY <1>2, <2>1, <2>2 DEF Selections
<1> QED BY <1>1, <1>2, <1>4, <1>6, <1>7 DEF SourceInv

(* The clicks that load or save a source, and the presets. *)
LEMMA SourcesKeepPanel ==
    ASSUME PanelInv,
           \/ \E fromWelcome \in BOOLEAN, s \in Online : selectTilePreset(s, fromWelcome)
           \/ EditForm \/ PreviewButton \/ Save \/ SaveReads \/ SaveAnswer
           \/ loadTilePresets \/ WelcomeButton
    PROVE  PanelInv'
<1> USE PanelAssumption
<1>1. /\ BuildInv /\ LoadsInv /\ SourceInv /\ UnaskedInv
      /\ panel \in PanelStates /\ choice \in Selections /\ saved \in TileChoices
      /\ clicks \in 0..MaxClicks /\ clicks \in Nat /\ NoChoice \notin TileChoices
      /\ welcome \in [dialog : {"hidden", "main", "choices"}, completed : BOOLEAN,
                      deferred : BOOLEAN]
  BY DEF PanelInv, BuildInv, SourceInv, TileChoices
<1>2. UNCHANGED <<server, fetching, posts, wants>>
  BY DEF selectTilePreset, EditForm, PreviewButton, Save, SaveReads, SaveAnswer,
     loadTilePresets, WelcomeButton, buildVars, sourceVars
<1>3. panel' = panel \/ panel' = Covered(panel)
  BY DEF selectTilePreset, EditForm, PreviewButton, Save, SaveReads, SaveAnswer,
     loadTilePresets, WelcomeButton, buildVars, sourceVars
<1>4. panel' \in PanelStates /\ panel'.auto = panel.auto
  <2>1. Covered(panel) \in PanelStates /\ Covered(panel).auto = panel.auto
    BY <1>1 DEF PanelStates, Covered
  <2> QED BY <1>1, <1>3, <2>1
<1>5. BuildInv'
  BY <1>1, <1>2, <1>4 DEF BuildInv
<1>6. clicks' \in 0..MaxClicks
  <2>1. clicks' = clicks \/ Click
    BY DEF selectTilePreset, EditForm, PreviewButton, Save, SaveReads, SaveAnswer,
       loadTilePresets, WelcomeButton
  <2> QED BY <1>1, <2>1 DEF Click
<1>7. welcome' \in [dialog : {"hidden", "main", "choices"}, completed : BOOLEAN,
                    deferred : BOOLEAN]
  <2>1. \/ welcome' = welcome
        \/ welcome' = [welcome EXCEPT !.dialog = "hidden", !.completed = TRUE]
        \/ welcome' = [welcome EXCEPT !.dialog = "hidden", !.deferred = TRUE]
        \/ welcome' = [welcome EXCEPT !.dialog = "main"]
        \/ welcome' = [welcome EXCEPT !.dialog = "choices"]
    BY DEF selectTilePreset, EditForm, PreviewButton, Save, SaveReads, SaveAnswer,
       loadTilePresets, WelcomeButton, WelcomeEnds
  <2> QED BY <1>1, <2>1
(* A load that is begun, if any, is of a source that was selected or saved. *)
<1>8. \/ UNCHANGED <<loads, newest>>
      \/ \E s \in TileChoices, why \in {"preset", "custom", "saved"} :
            Load(s, why) /\ (s = "tinytiles" => "tinytiles" \in {choice.form, saving.form})
  <2>1. CASE \E fromWelcome \in BOOLEAN, s \in Online : selectTilePreset(s, fromWelcome)
    BY <2>1 DEF selectTilePreset, TileChoices
  <2>2. CASE PreviewButton
    <3>1. Load(choice.form, "custom")
      BY <2>2 DEF PreviewButton, Load
    <3> QED BY <1>1, <3>1 DEF Selections
  <2>3. CASE SaveAnswer
    <3>1. saving.at = "writing"
      BY <2>3 DEF SaveAnswer
    <3>2. saving.form \in TileChoices
      BY <1>1, <3>1 DEF SourceInv
    <3> QED BY <2>3, <3>2 DEF SaveAnswer
  <2>4. CASE EditForm \/ Save \/ SaveReads \/ loadTilePresets \/ WelcomeButton
    BY <2>4 DEF EditForm, Save, SaveReads, loadTilePresets, WelcomeButton
  <2> QED BY <2>1, <2>2, <2>3, <2>4
<1>9. LoadsInv'
  <2>1. CASE UNCHANGED <<loads, newest>>
    BY <1>1, <2>1 DEF LoadsInv
  <2>2. ASSUME NEW s \in TileChoices, NEW why \in {"preset", "custom", "saved"}, Load(s, why)
        PROVE  LoadsInv'
    BY <1>1, <2>2, LoadKeepsLoads DEF Reached
  <2> QED BY <1>8, <2>1, <2>2
<1>10. /\ shown' = shown /\ presets' \in BOOLEAN
       /\ \/ choice' = choice
          \/ \E s \in Online : choice' = [preset |-> s, form |-> s]
          \/ choice' = [preset |-> NoChoice, form |-> "custom"]
          \/ choice' = [choice EXCEPT !.preset = NoChoice]
          \/ saved # "custom" /\ choice' = [choice EXCEPT !.preset = saved]
  <2>1. presets \in BOOLEAN
    BY <1>1 DEF SourceInv
  <2>2. shown' = shown /\ (presets' = presets \/ presets' = TRUE)
    BY DEF selectTilePreset, EditForm, PreviewButton, Save, SaveReads, SaveAnswer,
       loadTilePresets, WelcomeButton, sourceVars
  <2>3. CASE loadTilePresets
    <3>1. choice = [choice EXCEPT !.preset = choice.preset]
      BY <1>1 DEF Selections
    <3> QED BY <2>1, <2>2, <2>3, <3>1 DEF loadTilePresets
  <2>4. CASE \/ \E fromWelcome \in BOOLEAN, s \in Online : selectTilePreset(s, fromWelcome)
             \/ EditForm \/ PreviewButton \/ Save \/ SaveReads \/ SaveAnswer \/ WelcomeButton
    BY <2>1, <2>2, <2>4 DEF selectTilePreset, EditForm, PreviewButton, Save, SaveReads,
       SaveAnswer, WelcomeButton, sourceVars
  <2> QED BY <2>3, <2>4
<1>11. choice' \in Selections
  <2>1. "custom" \in TileChoices /\ Online \subseteq TileChoices
    BY DEF TileChoices
  <2>2. saved # "custom" => saved \in Online \cup {"tinytiles", NoChoice}
    BY <1>1 DEF TileChoices
  <2> QED BY <1>1, <1>10, <2>1, <2>2 DEF Selections
<1>12. \/ saving' = saving /\ saved' = saved
       \/ saving' = [at |-> "reading", form |-> NoChoice] /\ saved' = saved
       \/ saving' = [at |-> "none", form |-> NoChoice] /\ saved' = saved
       \/ saving' = [at |-> "writing", form |-> choice.form] /\ saved' = saved
       \/ /\ saving' = [at |-> "none", form |-> NoChoice] /\ saved' = saving.form
          /\ saving.form \in TileChoices
  <2>1. CASE SaveAnswer
    <3>1. saving.at = "writing"
      BY <2>1 DEF SaveAnswer
    <3>2. saving.form \in TileChoices
      BY <1>1, <3>1 DEF SourceInv
    <3> QED BY <2>1, <3>2 DEF SaveAnswer
  <2>2. CASE \/ \E fromWelcome \in BOOLEAN, s \in Online : selectTilePreset(s, fromWelcome)
             \/ EditForm \/ PreviewButton \/ Save \/ SaveReads \/ loadTilePresets \/ WelcomeButton
    BY <2>2 DEF selectTilePreset, EditForm, PreviewButton, Save, SaveReads,
       loadTilePresets, WelcomeButton, sourceVars
  <2> QED BY <2>1, <2>2
<1>13. /\ saved' \in TileChoices
       /\ saving' \in [at : {"none", "reading"}, form : {NoChoice}]
                      \cup [at : {"writing"}, form : TileChoices]
  <2>1. choice.form \in TileChoices
    BY <1>1 DEF Selections
  <2>2. saving \in [at : {"none", "reading"}, form : {NoChoice}]
                   \cup [at : {"writing"}, form : TileChoices]
    BY <1>1 DEF SourceInv
  <2> QED BY <1>1, <1>12, <2>1, <2>2
<1>14. SourceInv'
  BY <1>1, <1>2, <1>6, <1>7, <1>10, <1>11, <1>13 DEF SourceInv
<1>15. UnaskedInv'
  <2>1. SUFFICES ASSUME ~wants PROVE UnaskedInv'
    BY <1>2 DEF UnaskedInv
  <2>2. "tinytiles" \notin {shown, choice.preset, choice.form, saving.form, saved, NoChoice}
    BY <1>1, <2>1 DEF UnaskedInv
  <2>3. "tinytiles" \notin Online
    OBVIOUS
  <2>4. "tinytiles" \notin {choice'.preset, choice'.form}
    BY <1>1, <1>10, <2>2, <2>3 DEF Selections
  <2>5. "tinytiles" \notin {saving'.form, saved'}
    BY <1>12, <2>2
  <2>6. \A l \in loads' : /\ l.source # "tinytiles" /\ l.why # "tinytiles"
                          /\ l.before.form # "tinytiles" /\ l.before.preset # "tinytiles"
    <3>1. CASE UNCHANGED <<loads, newest>>
      BY <1>1, <2>1, <3>1 DEF UnaskedInv
    <3>2. ASSUME NEW s \in TileChoices, NEW why \in {"preset", "custom", "saved"},
                 Load(s, why), s # "tinytiles"
          PROVE  \A l \in loads' : /\ l.source # "tinytiles" /\ l.why # "tinytiles"
                                   /\ l.before.form # "tinytiles" /\ l.before.preset # "tinytiles"
      BY <1>1, <2>1, <2>2, <3>2 DEF UnaskedInv, Load, Call
    <3> QED BY <1>8, <2>2, <3>1, <3>2
  <2> QED BY <1>1, <1>2, <1>4, <1>10, <2>1, <2>2, <2>4, <2>5, <2>6 DEF UnaskedInv
<1> QED BY <1>5, <1>9, <1>14, <1>15 DEF PanelInv

(* The page starts with one load, that of the choice which was saved. *)
LEMMA PanelInitial == PanelInit => PanelInv
<1> SUFFICES ASSUME PanelInit PROVE PanelInv
  OBVIOUS
<1> USE PanelAssumption DEF PanelInit
<1>1. BuildInv
  <2>1. /\ server \in BuildStates /\ "startup" \in Reasons
    BY DEF BuildStates, Building, Reasons
  <2>2. panel \in PanelStates
    BY DEF PanelStates, BuildStates, Building
  <2> QED BY <2>1, <2>2 DEF BuildInv, GoodPosts
<1>2. saved \in TileChoices /\ choice \in Selections
  BY DEF TileChoices, Selections
<1>3. LoadsInv
  BY <1>2 DEF LoadsInv, Loads, Call, Reached
<1>4. SourceInv
  <2>1. 0 \in 0..MaxClicks
    OBVIOUS
  <2>2. [dialog : {"hidden"}, completed : BOOLEAN, deferred : {FALSE}]
          \subseteq [dialog : {"hidden", "main", "choices"}, completed : BOOLEAN, deferred : BOOLEAN]
    OBVIOUS
  <2>3. welcome \in [dialog : {"hidden", "main", "choices"}, completed : BOOLEAN,
                     deferred : BOOLEAN]
    BY <2>2
  <2> QED BY <1>2, <2>1, <2>3 DEF SourceInv
<1>5. UnaskedInv
  BY DEF UnaskedInv, Call
<1> QED BY <1>1, <1>3, <1>4, <1>5 DEF PanelInv

(* PanelInv is inductive: it holds of every state of the panel. *)
THEOREM PanelInvariant == PanelSpec => []PanelInv
<1>1. PanelInv /\ [PanelStep]_panelVars => PanelInv'
  <2> SUFFICES ASSUME PanelInv, [PanelStep]_panelVars PROVE PanelInv'
    OBVIOUS
  <2>1. CASE UNCHANGED panelVars
    BY <2>1 DEF PanelInv, BuildInv, LoadsInv, SourceInv, UnaskedInv, panelVars
  <2>2. CASE \E l \in loads : LoadApplies(l) \/ LoadEnds(l)
    BY <2>2, LoadAppliesKeepsPanel, LoadEndsKeepsPanel
  <2>3. CASE StatusArrives \/ FetchFails
    BY <2>3, AnswerKeepsPanel, BuildStepKeepsSources DEF PanelInv
  <2>4. CASE \/ scheduleTinyTilesPolling \/ ActivateButton
             \/ \E fromWelcome \in BOOLEAN : selectTinyTilesSource(fromWelcome)
    BY <2>4, FetchesKeepPanel, BuildStepKeepsSources DEF PanelInv
  <2>5. CASE \/ \E r \in posts : PostArrives(r) \/ PostAnswer(r)
             \/ \E auto \in BOOLEAN : BuildButton(auto)
             \/ ServerMoves
    BY <2>5, PostsKeepPanel, BuildStepKeepsSources DEF PanelInv
  <2>6. CASE \/ \E fromWelcome \in BOOLEAN, s \in Online : selectTilePreset(s, fromWelcome)
             \/ EditForm \/ PreviewButton \/ Save \/ SaveReads \/ SaveAnswer
             \/ loadTilePresets \/ WelcomeButton
    BY <2>6, SourcesKeepPanel
  <2> QED BY <2>1, <2>2, <2>3, <2>4, <2>5, <2>6 DEF PanelStep
<1> QED BY <1>1, PanelInitial, PTL DEF PanelSpec

(* Every variable of the panel has its type. *)
THEOREM PanelTypeCorrect == PanelSpec => []PanelTypeOK
<1>1. PanelInv => PanelTypeOK
  <2> SUFFICES ASSUME PanelInv PROVE PanelTypeOK
    OBVIOUS
  <2> USE PanelAssumption
  <2>1. NoChoice \notin TileChoices
    BY DEF TileChoices
  <2>2. /\ choice \in [preset : TileChoices \cup {NoChoice}, form : TileChoices]
        /\ choice.preset \in Online \cup {"tinytiles", NoChoice}
        /\ Selections \subseteq [preset : TileChoices \cup {NoChoice}, form : TileChoices]
    BY DEF PanelInv, SourceInv, Selections, TileChoices
  <2>3. /\ saving \in [at : {"none", "reading", "writing"}, form : TileChoices \cup {NoChoice}]
        /\ (saving.at = "writing") = (saving.form # NoChoice)
    BY <2>1 DEF PanelInv, SourceInv
  <2>4. loads \subseteq [gen : 1..newest, source : TileChoices,
                         why : {"startup", "preset", "custom", "tinytiles", "saved"},
                         applied : BOOLEAN, before : [preset : TileChoices \cup {NoChoice}, form : TileChoices]]
    BY <2>2 DEF PanelInv, LoadsInv, Loads, Reached
  <2>5. panel \in [status : BuildStates, ui : BuildStates, timer : BOOLEAN,
                   auto : BOOLEAN, requested : BOOLEAN, overlay : BOOLEAN]
    BY DEF PanelInv, BuildInv, PanelStates
  <2> QED BY <2>2, <2>3, <2>4, <2>5 DEF PanelInv, BuildInv, GoodPosts, LoadsInv, SourceInv, PanelTypeOK
<1> QED BY <1>1, PanelInvariant, PTL

(* The source of a user who never starts or activates the offline map is not
   replaced by it: not by the answer to somebody else's build, nor to one for
   postal areas, nor by a selection that a failed load puts back. *)
THEOREM SourceIsKept == PanelSpec => []NotReplacedUnasked
<1>1. PanelInv => NotReplacedUnasked
  BY DEF PanelInv, UnaskedInv, NotReplacedUnasked
<1> QED BY <1>1, PanelInvariant, PTL

(* A build that the page knows of is followed by a timer, a status or a
   request under way; only a failed request ends that. *)
THEOREM BuildsAreFollowed == PanelSpec => BuildIsFollowed
<1>1. ASSUME PanelInv, [PanelStep]_panelVars,
             Following, ~Following', panel'.status \in Building
      PROVE  FetchFails
  <2>1. SUFFICES ASSUME ~FetchFails PROVE FALSE
    OBVIOUS
  <2>2. /\ panel \in PanelStates /\ GoodPosts(posts)
        /\ LoadsInv /\ choice \in Selections /\ server \in BuildStates
        /\ fetching \in [why : Reasons, saw : BuildStates] \cup {NoFetch}
    BY <1>1 DEF PanelInv, BuildInv, SourceInv
  <2>3. /\ panel'.timer # TRUE /\ fetching' = NoFetch /\ posts' = {}
        /\ panel.timer = TRUE \/ fetching # NoFetch \/ posts # {}
        /\ panel'.status \in Building
    BY <1>1, <2>2 DEF Following, PanelStates
  <2>4. ~(panel'.timer = panel.timer /\ UNCHANGED <<fetching, posts>>)
    BY <2>3
  <2>5. CASE StatusArrives
    <3> DEFINE s == fetching.saw
    <3>1. Continue(fetching.why, Handled(panel, s), s, ActivatesNow(panel, s))
      BY <2>5 DEF StatusArrives
    <3>2. /\ s \in BuildStates /\ fetching.why \in Reasons
      BY <2>2, <2>5 DEF StatusArrives
    <3> HIDE DEF s
    <3> DEFINE p == Handled(panel, s)
    <3>3. /\ p \in PanelStates /\ p.status = s
          /\ s \in Building => p.timer = TRUE
      BY <2>2, <3>2, HandledPanel
    <3>4. ActivatesNow(panel, s) \in {0, 1}
      BY DEF ActivatesNow
    <3> HIDE DEF p
    <3>5. \/ panel'.timer = TRUE
          \/ panel'.status = p.status /\ panel'.timer = p.timer
          \/ panel'.status = "failed"
      <4>1. Continue(fetching.why, p, s, ActivatesNow(panel, s))
        BY <3>1 DEF p
      <4> QED BY <2>2, <3>2, <3>3, <3>4, <4>1, ContinueKeepsPanel
    <3> QED BY <2>3, <3>3, <3>5 DEF Building
  <2>6. CASE \/ scheduleTinyTilesPolling \/ ActivateButton
             \/ \E fromWelcome \in BOOLEAN : selectTinyTilesSource(fromWelcome)
    <3>1. fetching' # NoFetch
      <4>1. \A why \in Reasons : why # "none"
        BY DEF Reasons
      <4>2. {"poll", "activate", "select"} \subseteq Reasons
        BY DEF Reasons
      <4>3. PICK why \in Reasons : \E p : fetchTinyTilesStatus(why, p)
        BY <2>6, <4>2 DEF scheduleTinyTilesPolling, ActivateButton, selectTinyTilesSource
      <4> QED BY <4>1, <4>3 DEF fetchTinyTilesStatus, NoFetch
    <3> QED BY <2>3, <3>1
  <2>7. ASSUME NEW r \in posts, PostArrives(r) \/ PostAnswer(r) PROVE FALSE
    <3>1. CASE PostArrives(r)
      BY <2>3, <3>1 DEF PostArrives
    <3>2. /\ r.auto \in BOOLEAN /\ FALSE \in BOOLEAN /\ Building \cup {"failed"} \subseteq BuildStates
          /\ "failed" \notin Building
      BY <2>2 DEF BuildStates, Building, GoodPosts
    <3>3. ASSUME NEW s \in Building, panel' = Handled([panel EXCEPT !.auto = r.auto], s)
          PROVE  FALSE
      <4>1. [panel EXCEPT !.auto = r.auto] \in PanelStates
        BY <2>2, <3>2 DEF PanelStates
      <4> QED BY <2>3, <3>2, <3>3, <4>1, HandledPanel
    <3>4. CASE panel' = Handled(GivenUp([panel EXCEPT !.auto = FALSE]), "failed")
      <4>1. GivenUp([panel EXCEPT !.auto = FALSE]) \in PanelStates
        BY <2>2 DEF PanelStates, GivenUp
      <4>2. panel'.status = "failed"
        BY <3>2, <3>4, <4>1, HandledPanel
      <4> QED BY <2>3, <3>2, <4>2
    <3>5. CASE fetching' = IF fetching = NoFetch THEN [why |-> "conflict", saw |-> server]
                           ELSE fetching
      BY <2>3, <3>5 DEF NoFetch
    <3>6. (IF r.auto THEN "building" ELSE "postal") \in Building
      BY DEF Building
    <3> QED BY <2>7, <3>1, <3>3, <3>4, <3>5, <3>6 DEF PostAnswer
  <2>8. ASSUME NEW auto \in BOOLEAN, BuildButton(auto) PROVE FALSE
    <3>1. /\ startTinyTilesBuild(panel, auto) /\ UNCHANGED fetching
      BY <2>8 DEF BuildButton
    <3>2. /\ panel' = panel \/ panel'.timer = TRUE
          /\ panel' = panel => posts \subseteq posts'
      BY <2>2, <3>1, StartKeepsPanel
    <3> QED BY <2>3, <3>1, <3>2
  <2>9. CASE \/ \E l \in loads : LoadApplies(l) \/ LoadEnds(l)
             \/ \E fromWelcome \in BOOLEAN, s \in Online : selectTilePreset(s, fromWelcome)
             \/ PreviewButton
    <3>1. /\ panel' \in {GivenUp(panel), Covered(panel), [panel EXCEPT !.overlay = FALSE], panel}
          /\ UNCHANGED <<fetching, posts>>
      BY <2>9 DEF LoadApplies, LoadEnds, selectTilePreset, PreviewButton, buildVars
    <3>2. panel'.timer = panel.timer
      BY <2>2, <3>1 DEF PanelStates, GivenUp, Covered
    <3> QED BY <2>4, <3>1, <3>2
  <2>10. CASE \/ EditForm \/ Save \/ SaveReads \/ SaveAnswer
              \/ loadTilePresets \/ WelcomeButton
    BY <2>4, <2>10 DEF EditForm, Save, SaveReads, SaveAnswer, loadTilePresets, WelcomeButton,
       buildVars
  <2>11. CASE UNCHANGED panelVars
    BY <2>4, <2>11 DEF panelVars
  <2>12. CASE ServerMoves
    <3>1. Seen /\ UNCHANGED <<panel, posts>>
      BY <2>12 DEF ServerMoves
    <3>2. CASE fetching # NoFetch /\ fetching' = [fetching EXCEPT !.saw = server']
      <4>1. fetching'.why = fetching.why /\ fetching.why # "none"
        BY <2>2, <3>2 DEF Reasons
      <4> QED BY <2>3, <4>1 DEF NoFetch
    <3> QED BY <2>4, <3>1, <3>2 DEF Seen
  <2> QED BY <1>1, <2>1, <2>5, <2>6, <2>7, <2>8, <2>9, <2>10, <2>11, <2>12 DEF PanelStep
<1>2. PanelInv /\ [PanelStep]_panelVars =>
         [Following /\ ~Following' /\ panel'.status \in Building => FetchFails]_panelVars
  BY <1>1
<1> QED BY <1>2, PanelInvariant, PTL DEF PanelSpec, BuildIsFollowed

-----------------------------------------------------------------------------
(* The base map and its overlays.                                          *)

OverlayStates ==
    [on : BOOLEAN, timer : BOOLEAN, request : 0..(MaxRequests + 1), drawn : 0..(MaxMoves + 1)]
Sound(s) == s \in OverlayStates /\ (s.on = FALSE => s = Off)

OverlayInv ==
    /\ view \in [zoom : Zooms, at : 1..(MaxMoves + 1)]
    /\ DOMAIN ov = Overlays /\ ov = [o \in Overlays |-> ov[o]]
    /\ \A o \in Overlays : Sound(ov[o])
    /\ answers \subseteq [o : Overlays, id : 1..(MaxRequests + 1), at : 1..(MaxMoves + 1)]
    /\ IsFiniteSet(answers)

(* The answer that an overlay waits for is the newest, and nothing newer than
   it is drawn. *)
AnswersInv ==
    /\ \A a, b \in answers : a.o = b.o /\ a.id = b.id => a = b
    /\ \A o \in Overlays : ov[o].drawn <= view.at
    /\ \A a \in answers : a.at <= view.at
    /\ \A a \in answers : a.id = ov[a.o].request =>
          /\ ov[a.o].drawn <= a.at
          /\ \A b \in answers : b.o = a.o => b.at <= a.at

(* What a change of an overlay may be that asks and draws nothing. *)
Follows(r, s) == Sound(r) /\ r.drawn \in {0, s.drawn} /\ r.request \in {0, s.request}

Calm ==
    /\ view' \in [zoom : Zooms, at : 1..(MaxMoves + 1)] /\ view.at <= view'.at
    /\ answers' \subseteq answers
    /\ DOMAIN ov' = Overlays /\ ov' = [o \in Overlays |-> ov'[o]]
    /\ \A o \in Overlays : Follows(ov'[o], ov[o])

Draws(a) ==
    /\ UNCHANGED view
    /\ a \in answers /\ answers' = answers \ {a}
    /\ ov[a.o].on /\ ov[a.o].request = a.id
    /\ ov' = [ov EXCEPT ![a.o].drawn = a.at]

(* A state of an overlay is its four fields. *)
LEMMA SameState ==
    ASSUME NEW r \in OverlayStates, NEW s \in OverlayStates, r.on = s.on,
           r.timer = s.timer, r.request = s.request, r.drawn = s.drawn
    PROVE  r = s
BY DEF OverlayStates

(* The states of an overlay that nothing has been asked for. *)
LEMMA OffIsSound ==
    LET idle == [Off EXCEPT !.on = TRUE]
    IN  /\ Sound(Off) /\ Off.on = FALSE /\ Off.timer = FALSE /\ Off.request = 0 /\ Off.drawn = 0
        /\ Sound(idle) /\ idle.on = TRUE /\ idle.timer = FALSE /\ idle.request = 0
        /\ idle.drawn = 0
<1>1. 0 \in 0..(MaxRequests + 1) /\ 0 \in 0..(MaxMoves + 1)
  BY OverlaysAssumption
<1>2. /\ Off \in OverlayStates
      /\ Off.on = FALSE /\ Off.timer = FALSE /\ Off.request = 0 /\ Off.drawn = 0
  BY <1>1 DEF Off, OverlayStates
<1>3. /\ [Off EXCEPT !.on = TRUE] \in OverlayStates
      /\ [Off EXCEPT !.on = TRUE].on = TRUE /\ [Off EXCEPT !.on = TRUE].timer = FALSE
      /\ [Off EXCEPT !.on = TRUE].request = 0 /\ [Off EXCEPT !.on = TRUE].drawn = 0
  BY <1>2 DEF OverlayStates
<1> QED BY <1>2, <1>3 DEF Sound

(* To stay as it is or to be cleared asks and draws nothing. *)
LEMMA FollowsItself == ASSUME NEW s, Sound(s) PROVE Follows(s, s) /\ Follows(Off, s)
BY OffIsSound DEF Follows

(* The functions of one overlay's state. *)
LEMMA QueuedFollows ==
    ASSUME NEW s, Sound(s)
    PROVE  /\ Follows(Queued(s), s) /\ Queued(s).on = s.on
           /\ Queued(s).on = TRUE => Queued(s).timer = TRUE
<1>1. CASE s.on = TRUE
  <2>1. Queued(s) = [s EXCEPT !.timer = TRUE]
    BY <1>1 DEF Queued
  <2> QED BY <1>1, <2>1 DEF Sound, Follows, OverlayStates
<1>2. CASE s.on = FALSE
  <2>1. Queued(s) = s
    BY <1>2 DEF Queued
  <2> QED BY <1>2, <2>1 DEF Sound, Follows
<1> QED BY <1>1, <1>2 DEF Sound, OverlayStates

(* The queue of the buildings: too far out, it clears them. *)
LEMMA QueuedBuildingsFollows ==
    ASSUME NEW s, Sound(s), NEW zoom \in Nat
    PROVE  /\ Follows(QueuedBuildings(s, zoom), s)
           /\ QueuedBuildings(s, zoom).on = s.on
           /\ zoom < MinZoom["buildings"] =>
                 QueuedBuildings(s, zoom) \in {Off, [Off EXCEPT !.on = TRUE]}
<1> USE OverlaysAssumption
<1>1. CASE s.on = TRUE /\ zoom < MinZoom["buildings"]
  <2>1. QueuedBuildings(s, zoom) = [s EXCEPT !.timer = FALSE, !.request = 0, !.drawn = 0]
    BY <1>1 DEF QueuedBuildings
  <2>2. QueuedBuildings(s, zoom) = [Off EXCEPT !.on = TRUE]
    <3> DEFINE r == [s EXCEPT !.timer = FALSE, !.request = 0, !.drawn = 0]
    <3>1. 0 \in 0..(MaxRequests + 1) /\ 0 \in 0..(MaxMoves + 1)
      OBVIOUS
    <3>2. /\ r \in OverlayStates /\ r.on = TRUE /\ r.timer = FALSE
          /\ r.request = 0 /\ r.drawn = 0
      BY <1>1, <3>1 DEF Sound, OverlayStates
    <3> HIDE DEF r
    <3>3. r = [Off EXCEPT !.on = TRUE]
      BY <3>2, OffIsSound, SameState DEF Sound
    <3> QED BY <2>1, <3>3 DEF r
  <2>3. [Off EXCEPT !.on = TRUE].on = TRUE /\ [Off EXCEPT !.on = TRUE].request = 0
        /\ [Off EXCEPT !.on = TRUE].drawn = 0
    BY OffIsSound
  <2> QED BY <1>1, <2>2, <2>3, OffIsSound DEF Follows
<1>2. CASE s.on = TRUE /\ ~(zoom < MinZoom["buildings"])
  <2>1. QueuedBuildings(s, zoom) = [s EXCEPT !.timer = TRUE, !.request = 0]
    BY <1>2 DEF QueuedBuildings
  <2> DEFINE r == [s EXCEPT !.timer = TRUE, !.request = 0]
  <2>2. 0 \in 0..(MaxRequests + 1)
    OBVIOUS
  <2>3. r \in OverlayStates /\ r.on = TRUE /\ r.drawn = s.drawn /\ r.request = 0
    BY <1>2, <2>2 DEF Sound, OverlayStates
  <2> HIDE DEF r
  <2>4. QueuedBuildings(s, zoom) = r
    BY <2>1 DEF r
  <2> QED BY <1>2, <2>3, <2>4 DEF Sound, Follows
<1>3. CASE s.on = FALSE
  <2>1. QueuedBuildings(s, zoom) = s /\ s = Off
    BY <1>3 DEF QueuedBuildings, Sound
  <2> QED BY <1>3, <2>1, FollowsItself
<1> QED BY <1>1, <1>2, <1>3 DEF Sound, OverlayStates

(* Switching an overlay on or off: off, nothing is left of it. *)
LEMMA VisibleFollows ==
    ASSUME NEW s, Sound(s), NEW on \in BOOLEAN
    PROVE  /\ Follows(Visible(s, on), s)
           /\ on = FALSE => Visible(s, on) = Off
           /\ Visible(s, on).on = TRUE => Visible(s, on).timer = TRUE
<1> USE OverlaysAssumption
<1>1. CASE s.on = on
  <2>1. Visible(s, on) = Queued(s)
    BY <1>1 DEF Visible
  <2>2. on = FALSE => Queued(s) = Off
    BY <1>1 DEF Queued, Sound
  <2> QED BY <2>1, <2>2, QueuedFollows
<1>2. CASE s.on # on /\ on = TRUE
  <2>1. s = Off
    BY <1>2 DEF Sound, OverlayStates
  <2>2. [s EXCEPT !.on = TRUE, !.request = 0] = [Off EXCEPT !.on = TRUE]
    <3> DEFINE r == [s EXCEPT !.on = TRUE, !.request = 0]
    <3>1. 0 \in 0..(MaxRequests + 1)
      OBVIOUS
    <3>2. /\ Off \in OverlayStates /\ Off.timer = FALSE /\ Off.drawn = 0
      BY OffIsSound DEF Sound
    <3>3. /\ r \in OverlayStates /\ r.on = TRUE /\ r.timer = FALSE
          /\ r.request = 0 /\ r.drawn = 0
      BY <2>1, <3>1, <3>2 DEF OverlayStates
    <3> HIDE DEF r
    <3>4. r = [Off EXCEPT !.on = TRUE]
      BY <3>3, OffIsSound, SameState DEF Sound
    <3> QED BY <3>4 DEF r
  <2>3. Visible(s, on) = Queued([Off EXCEPT !.on = TRUE])
    BY <1>2, <2>2 DEF Visible
  <2>4. [Off EXCEPT !.on = TRUE].request = 0 /\ [Off EXCEPT !.on = TRUE].drawn = 0
    BY OffIsSound
  <2>5. /\ Follows(Visible(s, on), [Off EXCEPT !.on = TRUE])
        /\ Visible(s, on).on = TRUE => Visible(s, on).timer = TRUE
    BY <2>3, OffIsSound, QueuedFollows
  <2> QED BY <1>2, <2>4, <2>5 DEF Follows
<1>3. CASE s.on # on /\ on = FALSE
  <2>1. Visible(s, on) = Off
    BY <1>3 DEF Visible
  <2>2. Off.on = FALSE
    BY DEF Off
  <2> QED BY <2>1, <2>2, FollowsItself
<1> QED BY <1>1, <1>2, <1>3

(* The same for the buildings; too far out they stay empty. *)
LEMMA ActivatedFollows ==
    ASSUME NEW s, Sound(s), NEW on \in BOOLEAN, view.zoom \in Nat
    PROVE  /\ Follows(Activated(s, on), s)
           /\ on = FALSE => Activated(s, on) = Off
           /\ Far("buildings") => Activated(s, on) \in {Off, [Off EXCEPT !.on = TRUE]}
<1> USE OverlaysAssumption
<1>1. /\ Sound([s EXCEPT !.on = TRUE]) /\ [s EXCEPT !.on = TRUE].drawn = s.drawn
      /\ [s EXCEPT !.on = TRUE].request = s.request
  BY DEF Sound, OverlayStates, Off
<1>2. CASE on = FALSE
  <2>1. Activated(s, on) = Off
    BY <1>2 DEF Activated
  <2> QED BY <2>1, FollowsItself
<1>3. CASE on = TRUE
  <2>1. Activated(s, on) = QueuedBuildings([s EXCEPT !.on = TRUE], view.zoom)
    BY <1>3 DEF Activated
  <2>2. /\ Follows(Activated(s, on), [s EXCEPT !.on = TRUE])
        /\ Far("buildings") => Activated(s, on) \in {Off, [Off EXCEPT !.on = TRUE]}
    BY <1>1, <2>1, QueuedBuildingsFollows DEF Far
  <2> QED BY <1>1, <1>3, <2>2 DEF Follows
<1> QED BY <1>2, <1>3

(* There is always a number for a request that no answer under way has. *)
LEMMA FreshIdIsFresh ==
    ASSUME OverlayInv, NEW o \in Overlays,
           Cardinality({a \in answers : a.o = o}) < MaxRequests
    PROVE  /\ FreshId(o) \in 1..(MaxRequests + 1)
           /\ \A a \in answers : a.o = o => a.id # FreshId(o)
<1> USE OverlaysAssumption
<1> DEFINE T == {a \in answers : a.o = o}
           Used == {a.id : a \in T}
           All == 1..(MaxRequests + 1)
<1>1. IsFiniteSet(T) /\ Cardinality(T) \in Nat
  BY FS_Subset, FS_CardinalityType DEF OverlayInv
<1>2. IsFiniteSet(Used) /\ Cardinality(Used) <= Cardinality(T)
  <2> DEFINE f == [a \in T |-> a.id]
  <2>1. f \in Surjection(T, Used)
    BY DEF Surjection
  <2> HIDE DEF f, T, Used
  <2> QED BY <1>1, <2>1, FS_Surjection
<1> HIDE DEF Used
<1>3. /\ IsFiniteSet(Used \cup {ov[o].request})
      /\ Cardinality(Used \cup {ov[o].request}) <= Cardinality(Used) + 1
  <2>1. Cardinality(Used) \in Nat
    BY <1>2, FS_CardinalityType
  <2> QED BY <1>2, <2>1, FS_AddElement
<1>4. Cardinality(All) = MaxRequests + 1
  BY FS_Interval
<1>5. Cardinality(T) < MaxRequests
  OBVIOUS
<1> HIDE DEF T, All
<1>6. ~(All \subseteq Used \cup {ov[o].request})
  <2>1. SUFFICES ASSUME All \subseteq Used \cup {ov[o].request} PROVE FALSE
    OBVIOUS
  <2>2. Cardinality(All) <= Cardinality(Used \cup {ov[o].request})
    BY <1>3, <2>1, FS_Subset
  <2>3. Cardinality(Used) \in Nat /\ Cardinality(Used \cup {ov[o].request}) \in Nat
    BY <1>2, <1>3, FS_CardinalityType
  <2> QED BY <1>1, <1>2, <1>3, <1>4, <1>5, <2>2, <2>3
<1>7. \E n \in 1..(MaxRequests + 1) :
         n # ov[o].request /\ \A a \in answers : a.o = o => a.id # n
  BY <1>6 DEF Used, T, All
<1> QED BY <1>7 DEF FreshId

(* A step that asks and draws nothing keeps the newest answers the newest. *)
LEMMA CalmKeeps ==
    ASSUME OverlayInv, AnswersInv, Calm
    PROVE  OverlayInv' /\ AnswersInv'
<1> USE OverlaysAssumption
<1>1. /\ view.at \in Nat /\ view'.at \in Nat /\ view.at <= view'.at
      /\ \A o \in Overlays : ov[o].drawn \in Nat /\ ov'[o].drawn \in Nat
      /\ \A a \in answers : a.at \in Nat /\ a.id \in 1..(MaxRequests + 1) /\ a.o \in Overlays
  BY DEF OverlayInv, Calm, Follows, Sound, OverlayStates
<1>2. OverlayInv'
  <2>1. IsFiniteSet(answers')
    BY FS_Subset DEF OverlayInv, Calm
  <2> QED BY <2>1 DEF OverlayInv, Calm, Follows
<1>3. \A o \in Overlays : /\ ov'[o].drawn \in {0, ov[o].drawn}
                          /\ ov'[o].request \in {0, ov[o].request}
  BY DEF Calm, Follows
<1>4. \A o \in Overlays : ov'[o].drawn <= view'.at
  BY <1>1, <1>3 DEF AnswersInv
<1>5. \A a \in answers' : a.at <= view'.at
  BY <1>1 DEF AnswersInv, Calm
<1>6. ASSUME NEW a \in answers', a.id = ov'[a.o].request
      PROVE  ov'[a.o].drawn <= a.at /\ \A b \in answers' : b.o = a.o => b.at <= a.at
  <2>1. a \in answers /\ answers' \subseteq answers
    BY DEF Calm
  <2>2. a.id = ov[a.o].request
    BY <1>1, <1>3, <1>6, <2>1
  <2>3. ov[a.o].drawn <= a.at /\ \A b \in answers : b.o = a.o => b.at <= a.at
    BY <2>1, <2>2 DEF AnswersInv
  <2> QED BY <1>1, <1>3, <2>1, <2>3
<1>7. \A a, b \in answers' : a.o = b.o /\ a.id = b.id => a = b
  BY DEF AnswersInv, Calm
<1> QED BY <1>2, <1>4, <1>5, <1>6, <1>7 DEF AnswersInv

(* A new request asks for the view as it is, with a number of its own. *)
LEMMA RequestKeeps ==
    ASSUME OverlayInv, AnswersInv, NEW o \in Overlays, ov[o].timer, Request(o),
           UNCHANGED view
    PROVE  OverlayInv' /\ AnswersInv'
<1> USE OverlaysAssumption
<1> DEFINE n == FreshId(o)
           new == [o |-> o, id |-> n, at |-> view.at]
           s == [ov[o] EXCEPT !.timer = FALSE, !.request = n]
<1>1. n \in 1..(MaxRequests + 1) /\ \A a \in answers : a.o = o => a.id # n
  BY FreshIdIsFresh DEF Request
<1>2. /\ answers' = answers \cup {new}
      /\ ov' = [ov EXCEPT ![o].timer = FALSE, ![o].request = n]
  BY DEF Request
<1> HIDE DEF n
<1>3. /\ view.at \in 1..(MaxMoves + 1) /\ view.at \in Nat /\ view' = view
      /\ \A p \in Overlays : ov[p].drawn \in Nat /\ Sound(ov[p])
      /\ \A a \in answers : a.at \in Nat /\ a.id \in 1..(MaxRequests + 1) /\ a.o \in Overlays
      /\ DOMAIN ov = Overlays /\ ov = [p \in Overlays |-> ov[p]]
  BY DEF OverlayInv, Sound, OverlayStates
<1>4. /\ DOMAIN ov' = Overlays /\ ov' = [p \in Overlays |-> ov'[p]]
      /\ \A p \in Overlays : p # o => ov'[p] = ov[p]
      /\ ov'[o] = s
  BY <1>2, <1>3
<1>5. /\ Sound(s) /\ s.request = n /\ s.drawn = ov[o].drawn
  <2>1. ov[o] \in OverlayStates /\ ov[o].on = TRUE
    BY <1>3, OffIsSound DEF Sound, OverlayStates
  <2>2. n \in 0..(MaxRequests + 1)
    BY <1>1
  <2>3. s \in OverlayStates /\ s.on = TRUE /\ s.request = n /\ s.drawn = ov[o].drawn
    BY <2>1, <2>2 DEF OverlayStates
  <2> QED BY <2>3 DEF Sound
<1> HIDE DEF s
<1>6. /\ new \in [o : Overlays, id : 1..(MaxRequests + 1), at : 1..(MaxMoves + 1)]
      /\ new.o = o /\ new.id = n /\ new.at = view.at
  BY <1>1, <1>3
<1> HIDE DEF new
<1>7. OverlayInv'
  <2>1. IsFiniteSet(answers')
    BY <1>2, FS_AddElement DEF OverlayInv
  <2>2. answers' \subseteq [o : Overlays, id : 1..(MaxRequests + 1), at : 1..(MaxMoves + 1)]
    BY <1>2, <1>6 DEF OverlayInv
  <2>3. \A p \in Overlays : Sound(ov'[p])
    BY <1>3, <1>4, <1>5
  <2> QED BY <1>3, <1>4, <2>1, <2>2, <2>3 DEF OverlayInv
<1>8. \A p \in Overlays : ov'[p].drawn = ov[p].drawn
  BY <1>4, <1>5
<1>9. \A a, b \in answers' : a.o = b.o /\ a.id = b.id => a = b
  BY <1>1, <1>2, <1>6 DEF AnswersInv
<1>10. \A p \in Overlays : ov'[p].drawn <= view'.at
  BY <1>3, <1>8 DEF AnswersInv
<1>11. \A a \in answers' : a.at <= view'.at
  BY <1>2, <1>3, <1>6 DEF AnswersInv
<1>12. ASSUME NEW a \in answers', a.id = ov'[a.o].request
       PROVE  ov'[a.o].drawn <= a.at /\ \A b \in answers' : b.o = a.o => b.at <= a.at
  <2>1. CASE a = new
    BY <1>3, <1>6, <1>8, <1>10, <1>11, <2>1
  <2>2. CASE a # new
    <3>1. a \in answers
      BY <1>2, <2>2
    <3>2. a.o # o
      BY <1>1, <1>4, <1>5, <1>12, <3>1
    <3>3. a.id = ov[a.o].request
      BY <1>3, <1>4, <1>12, <3>1, <3>2
    <3>4. ov[a.o].drawn <= a.at /\ \A b \in answers : b.o = a.o => b.at <= a.at
      BY <3>1, <3>3 DEF AnswersInv
    <3> QED BY <1>2, <1>3, <1>6, <1>8, <3>1, <3>2, <3>4
  <2> QED BY <2>1, <2>2
<1> QED BY <1>7, <1>9, <1>10, <1>11, <1>12 DEF AnswersInv

(* An answer that is drawn is newer than what was, and than all the others. *)
LEMMA DrawKeeps ==
    ASSUME OverlayInv, AnswersInv, NEW a \in answers, Draws(a)
    PROVE  OverlayInv' /\ AnswersInv'
<1> USE OverlaysAssumption
<1> DEFINE s == [ov[a.o] EXCEPT !.drawn = a.at]
<1>1. /\ view.at \in Nat /\ view' = view
      /\ \A p \in Overlays : ov[p].drawn \in Nat /\ Sound(ov[p])
      /\ \A b \in answers : /\ b.at \in Nat /\ b.at \in 1..(MaxMoves + 1)
                            /\ b.o \in Overlays /\ b.at <= view.at
      /\ DOMAIN ov = Overlays /\ ov = [p \in Overlays |-> ov[p]]
      /\ answers' \subseteq answers
  BY DEF OverlayInv, AnswersInv, Sound, OverlayStates, Draws
<1>2. /\ DOMAIN ov' = Overlays /\ ov' = [p \in Overlays |-> ov'[p]]
      /\ \A p \in Overlays : p # a.o => ov'[p] = ov[p]
      /\ ov'[a.o] = s
  BY <1>1 DEF Draws
<1>3. Sound(s) /\ s.request = ov[a.o].request /\ s.drawn = a.at
  <2>1. ov[a.o] \in OverlayStates /\ ov[a.o].on = TRUE
    BY <1>1 DEF Sound, OverlayStates, Draws
  <2>2. a.at \in 0..(MaxMoves + 1)
    BY <1>1
  <2>3. s \in OverlayStates /\ s.on = TRUE /\ s.request = ov[a.o].request /\ s.drawn = a.at
    BY <2>1, <2>2 DEF OverlayStates
  <2> QED BY <2>3 DEF Sound
<1> HIDE DEF s
<1>4. OverlayInv'
  <2>1. IsFiniteSet(answers')
    BY <1>1, FS_Subset DEF OverlayInv
  <2>2. \A p \in Overlays : Sound(ov'[p])
    BY <1>1, <1>2, <1>3
  <2> QED BY <1>1, <1>2, <2>1, <2>2 DEF OverlayInv
<1>5. \A p \in Overlays : ov'[p].drawn <= view'.at /\ ov'[p].request = ov[p].request
  BY <1>1, <1>2, <1>3 DEF AnswersInv
<1>6. ASSUME NEW b \in answers', b.id = ov'[b.o].request
      PROVE  ov'[b.o].drawn <= b.at /\ \A c \in answers' : c.o = b.o => c.at <= b.at
  <2>1. b \in answers /\ b.id = ov[b.o].request /\ b # a
    BY <1>1, <1>5, <1>6 DEF Draws
  <2>2. b.o # a.o
    BY <2>1 DEF Draws, AnswersInv
  <2>3. ov[b.o].drawn <= b.at /\ \A c \in answers : c.o = b.o => c.at <= b.at
    BY <2>1 DEF AnswersInv
  <2> QED BY <1>1, <1>2, <2>1, <2>2, <2>3
<1>7. /\ \A b \in answers' : b.at <= view'.at
      /\ \A b, c \in answers' : b.o = c.o /\ b.id = c.id => b = c
  BY <1>1 DEF AnswersInv
<1> QED BY <1>4, <1>5, <1>6, <1>7 DEF AnswersInv

(* A change of one overlay. *)
LEMMA OneFollows ==
    ASSUME OverlayInv, NEW o \in Overlays, NEW r, Follows(r, ov[o]),
           ov' = [ov EXCEPT ![o] = r], UNCHANGED view, answers' \subseteq answers
    PROVE  Calm
<1>1. /\ DOMAIN ov' = Overlays /\ ov' = [p \in Overlays |-> ov'[p]]
      /\ ov'[o] = r /\ \A p \in Overlays : p # o => ov'[p] = ov[p]
  BY DEF OverlayInv
<1>2. \A p \in Overlays : Follows(ov'[p], ov[p])
  BY <1>1, FollowsItself DEF OverlayInv
<1>3. view' \in [zoom : Zooms, at : 1..(MaxMoves + 1)] /\ view.at <= view'.at
  BY OverlaysAssumption DEF OverlayInv
<1> QED BY <1>1, <1>2, <1>3 DEF Calm

(* The timer of an overlay goes off, and nothing is asked. *)
LEMMA TimerFollows ==
    ASSUME NEW s, Sound(s), s.timer
    PROVE  /\ Follows([s EXCEPT !.timer = FALSE], s)
           /\ Follows([s EXCEPT !.timer = FALSE, !.drawn = 0], s)
           /\ Follows([Off EXCEPT !.on = TRUE], s)
<1>1. s \in OverlayStates /\ s.on = TRUE /\ 0 \in 0..(MaxMoves + 1)
  BY OffIsSound, OverlaysAssumption DEF Sound, OverlayStates
<1> DEFINE q == [s EXCEPT !.timer = FALSE]
           r == [s EXCEPT !.timer = FALSE, !.drawn = 0]
<1>2. /\ q \in OverlayStates /\ q.on = TRUE /\ q.drawn = s.drawn /\ q.request = s.request
      /\ r \in OverlayStates /\ r.on = TRUE /\ r.drawn = 0 /\ r.request = s.request
  BY <1>1 DEF OverlayStates
<1> HIDE DEF q, r
<1>3. Follows(q, s) /\ Follows(r, s)
  BY <1>2 DEF Follows, Sound
<1>4. Follows([Off EXCEPT !.on = TRUE], s)
  BY OffIsSound DEF Follows
<1> QED BY <1>3, <1>4 DEF q, r

(* A switch of the source that is named: its overlays go on or off. *)
LEMMA NamedFollows ==
    ASSUME OverlayInv, NEW sw, Named(sw)
    PROVE  LET on == isTinyTilesSettings(sw.source)
           IN  /\ on \in BOOLEAN
               /\ DOMAIN ov' = Overlays /\ ov' = [o \in Overlays |-> ov'[o]]
               /\ \A o \in Overlays : Follows(ov'[o], ov[o])
               /\ ov'["labels"] = Visible(ov["labels"], on)
               /\ ov'["buildings"] = Activated(ov["buildings"], on)
               /\ ov'["waterways"] = Visible(ov["waterways"], on)
<1> USE OverlaysAssumption
<1> DEFINE on == isTinyTilesSettings(sw.source)
<1>1. /\ {"labels", "buildings", "waterways", "hydrants", "stations"} = Overlays
      /\ \A o \in Overlays : Sound(ov[o])
      /\ DOMAIN ov = Overlays /\ ov = [o \in Overlays |-> ov[o]]
      /\ view.zoom \in Nat
  BY DEF OverlayInv, Overlays, MinZoom
<1>2. on \in BOOLEAN
  BY DEF isTinyTilesSettings
<1>3. /\ DOMAIN ov' = Overlays /\ ov' = [o \in Overlays |-> ov'[o]]
      /\ ov'["labels"] = Visible(ov["labels"], on)
      /\ ov'["buildings"] = Activated(ov["buildings"], on)
      /\ ov'["waterways"] = Visible(ov["waterways"], on)
      /\ ov'["hydrants"] = ov["hydrants"] /\ ov'["stations"] = ov["stations"]
  BY <1>1 DEF Named
<1> HIDE DEF on
<1>4. Follows(ov'["labels"], ov["labels"]) /\ Follows(ov'["waterways"], ov["waterways"])
  BY <1>1, <1>2, <1>3, VisibleFollows
<1>5. Follows(ov'["buildings"], ov["buildings"])
  BY <1>1, <1>2, <1>3, ActivatedFollows
<1>6. Follows(ov'["hydrants"], ov["hydrants"]) /\ Follows(ov'["stations"], ov["stations"])
  BY <1>1, <1>3, FollowsItself
<1> QED BY <1>1, <1>2, <1>3, <1>4, <1>5, <1>6 DEF on

(* An overlay that a new style discards keeps all but what it shows. *)
LEMMA EmptiedFollows ==
    ASSUME NEW s, Sound(s)
    PROVE  LET r == [s EXCEPT !.drawn = 0]
           IN  /\ Follows(r, s) /\ r.drawn = 0 /\ r.on = s.on
               /\ r.timer = s.timer /\ r.request = s.request
<1> DEFINE r == [s EXCEPT !.drawn = 0]
<1>1. 0 \in 0..(MaxMoves + 1)
  BY OverlaysAssumption
<1>2. /\ r \in OverlayStates /\ r.drawn = 0 /\ r.on = s.on
      /\ r.timer = s.timer /\ r.request = s.request /\ s \in OverlayStates
  BY <1>1 DEF Sound, OverlayStates
<1> HIDE DEF r
<1>3. r.on = FALSE => r = Off
  BY <1>2, OffIsSound, SameState DEF Sound
<1>4. Follows(r, s)
  BY <1>2, <1>3 DEF Follows, Sound
<1> QED BY <1>2, <1>4 DEF r

(* A style that comes: only the buildings are fetched anew, and not if the map
   is too far out. *)
LEMMA StyleComesFollows ==
    ASSUME OverlayInv, NEW s, StyleComes(s)
    PROVE  /\ DOMAIN ov' = Overlays /\ ov' = [o \in Overlays |-> ov'[o]]
           /\ \A o \in Overlays : Follows(ov'[o], ov[o])
           /\ \A o \in InStyle : ov'[o].drawn = 0
           /\ ov'["labels"] = ov["labels"]
           /\ Far("buildings") => ov'["buildings"] \in {Off, [Off EXCEPT !.on = TRUE]}
<1> USE OverlaysAssumption
<1>1. /\ {"labels", "buildings", "waterways", "hydrants", "stations"} = Overlays
      /\ InStyle = {"waterways", "buildings"}
      /\ \A o \in Overlays : Sound(ov[o]) /\ Follows(ov[o], ov[o])
      /\ DOMAIN ov = Overlays /\ ov = [o \in Overlays |-> ov[o]]
      /\ view.zoom \in Nat
  BY FollowsItself DEF OverlayInv, Overlays, MinZoom, InStyle
<1> DEFINE b == [ov["buildings"] EXCEPT !.drawn = 0]
           w == [ov["waterways"] EXCEPT !.drawn = 0]
           q == [b EXCEPT !.request = 0]
<1>2. /\ DOMAIN ov' = Overlays /\ ov' = [o \in Overlays |-> ov'[o]]
      /\ ov'["labels"] = ov["labels"] /\ ov'["waterways"] = w
      /\ ov'["hydrants"] = ov["hydrants"] /\ ov'["stations"] = ov["stations"]
      /\ ov'["buildings"] = IF ov["buildings"].on THEN QueuedBuildings(q, view.zoom) ELSE b
  BY <1>1 DEF StyleComes
<1>3. Follows(w, ov["waterways"]) /\ w.drawn = 0
  BY <1>1, EmptiedFollows
<1>4. Follows(b, ov["buildings"]) /\ b.drawn = 0 /\ b.on = ov["buildings"].on
  BY <1>1, EmptiedFollows
<1> HIDE DEF b, w
<1>5. /\ Follows(ov'["buildings"], ov["buildings"]) /\ ov'["buildings"].drawn = 0
      /\ Far("buildings") => ov'["buildings"] \in {Off, [Off EXCEPT !.on = TRUE]}
  <2>1. CASE ov["buildings"].on = TRUE
    <3>1. b \in OverlayStates /\ b.on = TRUE /\ 0 \in 0..(MaxRequests + 1)
      BY <1>4, <2>1 DEF Follows, Sound
    <3>2. q \in OverlayStates /\ q.on = TRUE /\ q.drawn = 0 /\ q.request = 0
      BY <1>4, <3>1 DEF OverlayStates
    <3> HIDE DEF q
    <3>3. Sound(q)
      BY <3>2 DEF Sound
    <3>4. /\ Follows(QueuedBuildings(q, view.zoom), q)
          /\ Far("buildings") =>
                QueuedBuildings(q, view.zoom) \in {Off, [Off EXCEPT !.on = TRUE]}
      BY <1>1, <3>3, QueuedBuildingsFollows DEF Far
    <3> QED BY <1>2, <2>1, <3>2, <3>4 DEF Follows
  <2>2. CASE ov["buildings"].on = FALSE
    <3>1. b = Off
      BY <1>4, <2>2 DEF Follows, Sound
    <3> QED BY <1>2, <1>4, <2>2, <3>1
  <2> QED BY <1>1, <2>1, <2>2 DEF Sound, OverlayStates
<1> QED BY <1>1, <1>2, <1>3, <1>5

(* No step of a switch of the source asks or draws. *)
LEMMA SwitchIsCalm ==
    ASSUME OverlayInv, SwitchStep
    PROVE  Calm
<1> USE OverlaysAssumption
<1>1. /\ \A o \in Overlays : Follows(ov[o], ov[o])
      /\ DOMAIN ov = Overlays /\ ov = [o \in Overlays |-> ov[o]]
      /\ view.at \in Nat /\ view \in [zoom : Zooms, at : 1..(MaxMoves + 1)]
  BY FollowsItself DEF OverlayInv
<1>2. CASE UNCHANGED <<view, ov, answers>>
  BY <1>1, <1>2 DEF Calm
<1>3. CASE UNCHANGED <<view, answers>> /\ \E s : StyleComes(s)
  BY <1>1, <1>3, StyleComesFollows DEF Calm
<1>4. CASE StyleLoads
  BY <1>3, <1>4 DEF StyleLoads
<1>5. ASSUME NEW s \in TileSources, applyTileLayer(s) PROVE Calm
  <2>1. UNCHANGED <<view, answers>> /\ (UNCHANGED ov \/ \E t : StyleComes(t))
    BY <1>5 DEF applyTileLayer, ToRaster, styleVars
  <2> QED BY <1>2, <1>3, <2>1
<1>6. ASSUME NEW sw \in switches, RasterShown(sw) \/ VectorShown(sw) PROVE Calm
  <2>1. Named(sw) /\ UNCHANGED <<view, answers>>
    BY <1>6 DEF RasterShown, VectorShown
  <2> QED BY <1>1, <2>1, NamedFollows DEF Calm
<1>7. ASSUME NEW sw \in switches,
             waitForStyleReady(sw) \/ ensureRasterCapableStyle(sw) \/ activateRasterSource(sw)
      PROVE  Calm
  BY <1>2, <1>7 DEF waitForStyleReady, ensureRasterCapableStyle, activateRasterSource, overlayVars
<1> QED BY <1>4, <1>5, <1>6, <1>7 DEF SwitchStep

(* Every other step asks for one answer, draws one, or does neither. *)
LEMMA OverlayKinds ==
    ASSUME OverlayInv, [MapNext]_mapVars
    PROVE  \/ Calm
           \/ \E o \in Overlays : ov[o].timer /\ Request(o) /\ UNCHANGED view
           \/ \E a \in answers : Draws(a)
<1> USE OverlaysAssumption
<1>1. /\ {"labels", "buildings", "waterways", "hydrants", "stations"} = Overlays
      /\ \A o \in Overlays : Sound(ov[o]) /\ Follows(ov[o], ov[o])
      /\ DOMAIN ov = Overlays /\ ov = [o \in Overlays |-> ov[o]]
      /\ \A zoom \in Zooms : zoom \in Nat
      /\ view \in [zoom : Zooms, at : 1..(MaxMoves + 1)] /\ view.at \in Nat
      /\ \A a \in answers : a.o \in Overlays
  BY FollowsItself DEF OverlayInv, Overlays, MinZoom
<1>2. ASSUME UNCHANGED <<view, ov>>, answers' \subseteq answers PROVE Calm
  BY <1>1, <1>2 DEF Calm
<1>3. ASSUME NEW o \in Overlays, ov[o].timer, UNCHANGED <<view, answers>>,
             \/ ov' = [ov EXCEPT ![o].timer = FALSE]
             \/ ov' = [ov EXCEPT ![o].timer = FALSE, ![o].drawn = 0]
             \/ ov' = [ov EXCEPT ![o] = [Off EXCEPT !.on = TRUE]]
      PROVE  Calm
  <2> DEFINE s == ov[o]
  <2>1. \/ ov' = [ov EXCEPT ![o] = [s EXCEPT !.timer = FALSE]]
        \/ ov' = [ov EXCEPT ![o] = [s EXCEPT !.timer = FALSE, !.drawn = 0]]
        \/ ov' = [ov EXCEPT ![o] = [Off EXCEPT !.on = TRUE]]
    BY <1>1, <1>3
  <2>2. /\ Follows([s EXCEPT !.timer = FALSE], s)
        /\ Follows([s EXCEPT !.timer = FALSE, !.drawn = 0], s)
        /\ Follows([Off EXCEPT !.on = TRUE], s)
    BY <1>1, <1>3, TimerFollows
  <2> QED BY <1>3, <2>1, <2>2, OneFollows
<1>4. CASE \/ refreshOfflineLabels \/ refreshOfflineWaterways \/ refreshBuildings
           \/ refreshHydrants \/ refreshFireStations
  <2>1. \E o \in {"labels", "waterways", "buildings", "hydrants", "stations"} :
           /\ ov[o].timer /\ UNCHANGED view
           /\ \/ Request(o)
              \/ /\ UNCHANGED answers
                 /\ \/ ov' = [ov EXCEPT ![o].timer = FALSE]
                    \/ ov' = [ov EXCEPT ![o].timer = FALSE, ![o].drawn = 0]
                    \/ ov' = [ov EXCEPT ![o] = [Off EXCEPT !.on = TRUE]]
    BY <1>4 DEF refreshOfflineLabels, refreshOfflineWaterways, refreshBuildings,
       refreshHydrants, refreshFireStations, Idle
  <2> QED BY <1>1, <1>3, <2>1
<1>5. ASSUME NEW a \in answers, OverlayAnswer(a) PROVE Calm \/ Draws(a)
  <2>1. UNCHANGED view /\ answers' = answers \ {a}
    BY <1>5 DEF OverlayAnswer
  <2>2. \/ UNCHANGED ov
        \/ /\ ov[a.o].on /\ ov[a.o].request = a.id
           /\ ov' = [ov EXCEPT ![a.o].drawn = a.at]
    BY <1>5 DEF OverlayAnswer
  <2>3. CASE UNCHANGED ov
    <3>1. answers' \subseteq answers
      BY <2>1
    <3> QED BY <1>2, <2>1, <2>3, <3>1
  <2>4. CASE /\ ov[a.o].on /\ ov[a.o].request = a.id
             /\ ov' = [ov EXCEPT ![a.o].drawn = a.at]
    BY <2>1, <2>4 DEF Draws
  <2> QED BY <2>2, <2>3, <2>4
<1>6. ASSUME NEW zoom \in Zooms, Move(zoom) PROVE Calm
  <2>1. /\ view' = [zoom |-> zoom, at |-> view.at + 1] /\ view.at <= MaxMoves
        /\ answers' = answers
        /\ ov' = [o \in Overlays |->
                    IF o = "buildings" THEN QueuedBuildings(ov[o], zoom) ELSE Queued(ov[o])]
    BY <1>6 DEF Move
  <2>2. \A o \in Overlays : Follows(ov'[o], ov[o])
    BY <1>1, <2>1, QueuedFollows, QueuedBuildingsFollows
  <2>3. /\ view' \in [zoom : Zooms, at : 1..(MaxMoves + 1)] /\ view.at <= view'.at
    BY <1>1, <2>1
  <2>4. DOMAIN ov' = Overlays /\ ov' = [o \in Overlays |-> ov'[o]]
    BY <2>1
  <2> QED BY <2>1, <2>2, <2>3, <2>4 DEF Calm
<1>7. CASE \/ \E on \in BOOLEAN : setHydrantsVisible(on) \/ setFireStationsVisible(on)
           \/ EditAnswer
  <2>1. UNCHANGED <<view, answers>>
    BY <1>7 DEF setHydrantsVisible, setFireStationsVisible, EditAnswer, others
  <2>2. \/ ov' = ov
        \/ \E o \in Overlays, on \in BOOLEAN :
              \/ ov' = [ov EXCEPT ![o] = Visible(ov[o], on)]
              \/ ov' = [ov EXCEPT ![o] = Queued(ov[o])]
    BY <1>1, <1>7 DEF setHydrantsVisible, setFireStationsVisible, EditAnswer
  <2>3. ASSUME NEW o \in Overlays, NEW on \in BOOLEAN,
               \/ ov' = [ov EXCEPT ![o] = Visible(ov[o], on)]
               \/ ov' = [ov EXCEPT ![o] = Queued(ov[o])]
        PROVE  Calm
    <3>1. Follows(Visible(ov[o], on), ov[o]) /\ Follows(Queued(ov[o]), ov[o])
      BY <1>1, VisibleFollows, QueuedFollows
    <3> QED BY <2>1, <2>3, <3>1, OneFollows
  <2> QED BY <1>2, <2>1, <2>2, <2>3
<1>8. CASE EditStation \/ ToggleAddMode \/ PlaceStation \/ ImportStations
           \/ renderFireStationImportResult \/ UNCHANGED mapVars
  BY <1>2, <1>8 DEF EditStation, ToggleAddMode, PlaceStation, ImportStations,
     renderFireStationImportResult, mapVars, overlayVars
<1> QED BY <1>4, <1>5, <1>6, <1>7, <1>8, SwitchIsCalm
        DEF MapNext, MarkerStep, StationStep, ViewStep

(* What the style of the map lets overlays show. *)
StyleInv ==
    /\ present \subseteq InStyle
    /\ adding \in BOOLEAN /\ edits \in 0..MaxEdits /\ edited \in 0..MaxEdits
    /\ edits <= edited
    /\ \A o \in InStyle \ present : ov[o].drawn = 0

(* Too far out, and its timer has seen that, an overlay of the offline map has
   nothing drawn and waits for nothing that could be drawn. *)
FarInv ==
    /\ Far("labels") /\ ov["labels"].timer = FALSE =>
          ov["labels"].drawn = 0 /\ ov["labels"].request = 0
    /\ Far("waterways") /\ ov["waterways"].timer = FALSE =>
          /\ ov["waterways"].drawn = 0
          /\ "waterways" \in present => ov["waterways"].request = 0
    /\ Far("buildings") =>
          ov["buildings"] \in {Off, [Off EXCEPT !.on = TRUE]}

(* The steps that only deal with the overlays. *)
LEMMA OverlayStepKeepsStyle ==
    ASSUME OverlayInv, StyleInv, FarInv,
           \/ refreshOfflineLabels \/ refreshOfflineWaterways \/ refreshBuildings
           \/ MarkerStep \/ StationStep \/ ViewStep
    PROVE  StyleInv' /\ FarInv'
<1> USE OverlaysAssumption
<1>1. UNCHANGED present
  BY DEF refreshOfflineLabels, refreshOfflineWaterways, refreshBuildings, MarkerStep,
     StationStep, ViewStep, setHydrantsVisible, refreshHydrants, setFireStationsVisible,
     refreshFireStations, EditStation, ToggleAddMode, PlaceStation, ImportStations,
     renderFireStationImportResult, EditAnswer, Move, OverlayAnswer, others
<1>2. /\ adding' \in BOOLEAN /\ edits' \in 0..MaxEdits /\ edited' \in 0..MaxEdits
      /\ edits' <= edited'
  <2> USE DEF StyleInv
  <2>1. CASE UNCHANGED stations
    BY <2>1 DEF stations
  <2>2. CASE \/ EditStation \/ ToggleAddMode \/ PlaceStation \/ ImportStations
             \/ renderFireStationImportResult \/ EditAnswer
    <3>1. adding' \in BOOLEAN
      BY <2>2 DEF EditStation, ToggleAddMode, PlaceStation, ImportStations,
         renderFireStationImportResult, EditAnswer
    <3>2. \/ edited' = edited /\ edits' = edits
          \/ edited < MaxEdits /\ edits' = edits + 1 /\ edited' = edited + 1
          \/ edits > 0 /\ edits' = edits - 1 /\ edited' = edited
      BY <2>2 DEF EditStation, ToggleAddMode, PlaceStation, ImportStations,
         renderFireStationImportResult, EditAnswer
    <3> QED BY <3>1, <3>2
  <2> QED BY <2>1, <2>2 DEF refreshOfflineLabels, refreshOfflineWaterways, refreshBuildings,
     MarkerStep, StationStep, ViewStep, setHydrantsVisible, refreshHydrants,
     setFireStationsVisible, refreshFireStations, Move, OverlayAnswer, others
<1>3. /\ {"labels", "buildings", "waterways", "hydrants", "stations"} = Overlays
      /\ InStyle = {"waterways", "buildings"}
      /\ \A o \in Overlays : Sound(ov[o])
      /\ \A o \in Overlays : /\ ov[o].on \in BOOLEAN /\ ov[o].timer \in BOOLEAN
                             /\ ov[o] \in OverlayStates
      /\ DOMAIN ov = Overlays /\ ov = [o \in Overlays |-> ov[o]]
      /\ \A a \in answers : a.o \in Overlays /\ a.id # 0
      /\ view.zoom \in Nat
  BY DEF OverlayInv, Sound, OverlayStates, Overlays, MinZoom, InStyle
<1>4. ASSUME view' = view, NEW Same \in SUBSET Overlays,
             \A o \in Same : ov'[o] = ov[o],
             "labels" \in Same \/ ~Far("labels")
                \/ (ov'["labels"].drawn = 0 /\ ov'["labels"].request = 0),
             "waterways" \in Same
                \/ /\ ov'["waterways"].drawn = 0 \/ ov'["waterways"].drawn = ov["waterways"].drawn
                   /\ \/ ~Far("waterways")
                      \/ "waterways" \notin present
                      \/ ov'["waterways"].drawn = 0 /\ ov'["waterways"].request = 0,
             "buildings" \in Same
                \/ /\ ov'["buildings"].drawn = ov["buildings"].drawn
                   /\ ~Far("buildings")
      PROVE  StyleInv' /\ FarInv'
  <2>1. \A o \in InStyle \ present : ov'[o].drawn = 0
    BY <1>3, <1>4 DEF StyleInv
  <2>2. StyleInv'
    BY <1>1, <1>2, <2>1 DEF StyleInv
  <2>3. \A o \in Overlays : Far(o)' <=> Far(o)
    BY <1>4 DEF Far
  <2>4. FarInv'
    BY <1>1, <1>3, <1>4, <2>1, <2>3 DEF FarInv
  <2> QED BY <2>2, <2>4
<1>5. [Off EXCEPT !.on = TRUE].drawn = 0 /\ [Off EXCEPT !.on = TRUE].request = 0
      /\ Off.timer = FALSE /\ [Off EXCEPT !.on = TRUE].timer = FALSE
      /\ Off.request = 0 /\ Off.drawn = 0
  BY OffIsSound
<1>6. CASE refreshOfflineLabels
  <2>1. /\ view' = view /\ \A o \in Overlays \ {"labels"} : ov'[o] = ov[o]
        /\ Far("labels") => ov'["labels"] = [Off EXCEPT !.on = TRUE]
    <3>1. "labels" \in Overlays /\ DOMAIN ov = Overlays /\ view' = view
      BY <1>3, <1>6 DEF refreshOfflineLabels
    <3>2. CASE Far("labels")
      <4>1. ov' = [ov EXCEPT !["labels"] = [Off EXCEPT !.on = TRUE]]
        BY <1>6, <3>2 DEF refreshOfflineLabels
      <4> QED BY <3>1, <4>1
    <3>3. CASE ~Far("labels")
      <4>1. Request("labels")
        BY <1>6, <3>3 DEF refreshOfflineLabels
      <4>2. \A o \in Overlays \ {"labels"} : ov'[o] = ov[o]
        BY <3>1, <4>1 DEF Request
      <4> QED BY <3>1, <3>3, <4>2
    <3> QED BY <3>2, <3>3
  <2>2. "waterways" \in Overlays \ {"labels"} /\ "buildings" \in Overlays \ {"labels"}
    BY <1>3
  <2> QED BY <1>4, <1>5, <2>1, <2>2
<1>7. CASE refreshOfflineWaterways
  <2>1. view' = view /\ \A o \in Overlays \ {"waterways"} : ov'[o] = ov[o]
    BY <1>3, <1>7 DEF refreshOfflineWaterways, Request, Idle
  <2> DEFINE w == ov["waterways"]
  <2>2. \/ "waterways" \notin present /\ ov'["waterways"] = [w EXCEPT !.timer = FALSE]
        \/ ov'["waterways"] = [Off EXCEPT !.on = TRUE]
        \/ /\ ~Far("waterways")
           /\ ov'["waterways"] = [w EXCEPT !.timer = FALSE,
                                          !.request = FreshId("waterways")]
    BY <1>3, <1>7 DEF refreshOfflineWaterways, Request, Idle
  <2>3. /\ ov'["waterways"].drawn = 0 \/ ov'["waterways"].drawn = ov["waterways"].drawn
        /\ \/ ~Far("waterways")
           \/ "waterways" \notin present
           \/ ov'["waterways"].drawn = 0 /\ ov'["waterways"].request = 0
    <3>1. w \in OverlayStates
      BY <1>3
    <3>2. /\ [w EXCEPT !.timer = FALSE].drawn = w.drawn
          /\ [w EXCEPT !.timer = FALSE, !.request = FreshId("waterways")].drawn = w.drawn
      BY <3>1 DEF OverlayStates
    <3> QED BY <1>5, <2>2, <3>2
  <2>4. "labels" \in Overlays \ {"waterways"} /\ "buildings" \in Overlays \ {"waterways"}
    BY <1>3
  <2> QED BY <1>4, <2>1, <2>3, <2>4
<1>8. CASE refreshBuildings
  <2>1. view' = view /\ \A o \in Overlays \ {"buildings"} : ov'[o] = ov[o]
    BY <1>3, <1>8 DEF refreshBuildings, Request, Idle
  <2>2. ov["buildings"].timer = TRUE
    BY <1>3, <1>8 DEF refreshBuildings
  <2>3. ~Far("buildings")
    BY <1>5, <2>2 DEF FarInv
  <2> DEFINE b == ov["buildings"]
  <2>4. \/ ov'["buildings"] = [b EXCEPT !.timer = FALSE]
        \/ ov'["buildings"] = [b EXCEPT !.timer = FALSE, !.request = FreshId("buildings")]
    BY <1>3, <1>8 DEF refreshBuildings, Request, Idle
  <2>5. ov'["buildings"].drawn = ov["buildings"].drawn
    <3>1. b \in OverlayStates
      BY <1>3
    <3>2. /\ [b EXCEPT !.timer = FALSE].drawn = b.drawn
          /\ [b EXCEPT !.timer = FALSE, !.request = FreshId("buildings")].drawn = b.drawn
      BY <3>1 DEF OverlayStates
    <3> QED BY <2>4, <3>2
  <2>6. "labels" \in Overlays \ {"buildings"} /\ "waterways" \in Overlays \ {"buildings"}
    BY <1>3
  <2> QED BY <1>4, <2>1, <2>3, <2>5, <2>6
<1>9. CASE MarkerStep \/ StationStep
  <2>1. view' = view /\ \A o \in {"labels", "waterways", "buildings"} : ov'[o] = ov[o]
    BY <1>3, <1>9 DEF MarkerStep, StationStep, setHydrantsVisible, refreshHydrants,
       setFireStationsVisible, refreshFireStations, EditStation, ToggleAddMode, PlaceStation,
       ImportStations, renderFireStationImportResult, EditAnswer, others, Request
  <2>2. {"labels", "waterways", "buildings"} \in SUBSET Overlays
    BY <1>3
  <2> QED BY <1>4, <2>1, <2>2
<1>10. ASSUME NEW a \in answers, OverlayAnswer(a) PROVE StyleInv' /\ FarInv'
  <2>1. view' = view /\ \A o \in Overlays \ {a.o} : ov'[o] = ov[o]
    BY <1>3, <1>10 DEF OverlayAnswer
  <2>2. CASE ov' = ov
    BY <1>3, <1>4, <2>1, <2>2
  <2>3. CASE /\ ov[a.o].on /\ ov[a.o].request = a.id /\ (a.o \in InStyle => a.o \in present)
             /\ ov' = [ov EXCEPT ![a.o].drawn = a.at]
    <3>1. /\ ov'[a.o].timer = ov[a.o].timer /\ ov'[a.o].request = ov[a.o].request
      BY <1>3, <2>3 DEF OverlayStates
    <3>2. \A o \in InStyle \ present : ov'[o].drawn = 0
      BY <1>3, <2>1, <2>3 DEF StyleInv
    <3>3. StyleInv'
      BY <1>1, <1>2, <3>2 DEF StyleInv
    <3>4. \A o \in Overlays : Far(o)' <=> Far(o)
      BY <2>1 DEF Far
    <3>5. ov[a.o].request # 0
      BY <1>3, <2>3
    <3>6. Far("labels") /\ ov'["labels"].timer = FALSE =>
             ov'["labels"].drawn = 0 /\ ov'["labels"].request = 0
      BY <1>3, <2>1, <3>1, <3>5 DEF FarInv
    <3>7. Far("waterways") /\ ov'["waterways"].timer = FALSE =>
             /\ ov'["waterways"].drawn = 0
             /\ "waterways" \in present => ov'["waterways"].request = 0
      BY <1>3, <2>1, <2>3, <3>1, <3>5 DEF FarInv
    <3>8. Far("buildings") =>
             ov'["buildings"] \in {Off, [Off EXCEPT !.on = TRUE]}
      BY <1>3, <1>5, <2>1, <3>5 DEF FarInv
    <3>9. FarInv'
      BY <1>1, <1>3, <3>4, <3>6, <3>7, <3>8 DEF FarInv
    <3> QED BY <3>3, <3>9
  <2> QED BY <1>10, <2>2, <2>3 DEF OverlayAnswer
<1>11. ASSUME NEW zoom \in Zooms, Move(zoom) PROVE StyleInv' /\ FarInv'
  <2>1. /\ view' = [zoom |-> zoom, at |-> view.at + 1] /\ zoom \in Nat
        /\ ov' = [o \in Overlays |->
                    IF o = "buildings" THEN QueuedBuildings(ov[o], zoom) ELSE Queued(ov[o])]
    BY <1>11 DEF Move
  <2>2. /\ ov'["labels"] = Queued(ov["labels"]) /\ ov'["waterways"] = Queued(ov["waterways"])
        /\ ov'["buildings"] = QueuedBuildings(ov["buildings"], zoom)
    BY <1>3, <2>1
  <2>3. \A o \in {"labels", "waterways"} :
           /\ Sound(ov'[o]) /\ ov'[o].drawn \in {0, ov[o].drawn}
           /\ ov'[o].on = TRUE => ov'[o].timer = TRUE
    <3>1. \A o \in {"labels", "waterways"} :
             /\ Follows(Queued(ov[o]), ov[o])
             /\ Queued(ov[o]).on = ov[o].on
             /\ Queued(ov[o]).on = TRUE => Queued(ov[o]).timer = TRUE
      BY <1>3, QueuedFollows
    <3> QED BY <2>2, <3>1 DEF Follows
  <2>4. \A o \in {"labels", "waterways"} :
           ov'[o].timer = FALSE => ov'[o].drawn = 0 /\ ov'[o].request = 0
    BY <1>5, <2>3 DEF Sound, OverlayStates
  <2>5. /\ ov'["buildings"].drawn \in {0, ov["buildings"].drawn}
        /\ zoom < MinZoom["buildings"] =>
              ov'["buildings"] \in {Off, [Off EXCEPT !.on = TRUE]}
    BY <1>3, <2>1, <2>2, QueuedBuildingsFollows DEF Follows
  <2>6. \A o \in InStyle \ present : ov'[o].drawn = 0
    BY <1>3, <2>3, <2>5 DEF StyleInv
  <2>7. StyleInv'
    BY <1>1, <1>2, <2>6 DEF StyleInv
  <2>8. Far("buildings")' <=> zoom < MinZoom["buildings"]
    BY <2>1 DEF Far
  <2>9. FarInv'
    BY <1>1, <2>4, <2>5, <2>8 DEF FarInv
  <2> QED BY <2>7, <2>9
<1> QED BY <1>6, <1>7, <1>8, <1>9, <1>10, <1>11 DEF ViewStep

(* Whichever source is named, each overlay of the offline map is off or has its
   timer set, and the buildings stay empty if the map is too far out. *)
LEMMA NamedKeepsStyle ==
    ASSUME OverlayInv, StyleInv, FarInv, NEW sw, Named(sw), UNCHANGED <<view, stations>>
    PROVE  StyleInv' /\ FarInv'
<1> USE OverlaysAssumption
<1> DEFINE on == isTinyTilesSettings(sw.source)
<1>1. /\ {"labels", "waterways", "buildings"} \subseteq Overlays
      /\ InStyle = {"waterways", "buildings"}
      /\ \A o \in Overlays : Sound(ov[o]) /\ (Far(o)' <=> Far(o))
      /\ view.zoom \in Nat
  BY DEF OverlayInv, Overlays, MinZoom, InStyle, Far
<1>2. /\ on \in BOOLEAN
      /\ \A o \in Overlays : Follows(ov'[o], ov[o])
      /\ ov'["labels"] = Visible(ov["labels"], on)
      /\ ov'["buildings"] = Activated(ov["buildings"], on)
      /\ ov'["waterways"] = Visible(ov["waterways"], on)
      /\ present' = IF on THEN InStyle ELSE present
  BY NamedFollows DEF Named
<1> HIDE DEF on
<1>3. ASSUME NEW s, Sound(s)
      PROVE  Visible(s, on).timer = FALSE =>
                Visible(s, on).drawn = 0 /\ Visible(s, on).request = 0
  <2> DEFINE v == Visible(s, on)
  <2>1. Sound(v) /\ (v.on = TRUE => v.timer = TRUE)
    BY <1>2, <1>3, VisibleFollows DEF Follows
  <2> HIDE DEF v
  <2>2. v.timer = FALSE => v = Off
    BY <2>1 DEF Sound, OverlayStates
  <2> QED BY <2>2, OffIsSound DEF v
<1>4. \A o \in InStyle \ present' : ov'[o].drawn = 0
  <2>1. InStyle \ present' \subseteq InStyle \ present
    BY <1>2
  <2> QED BY <1>1, <1>2, <2>1 DEF StyleInv, Follows
<1>5. StyleInv'
  BY <1>2, <1>4 DEF StyleInv, stations
<1>6. \A o \in {"labels", "waterways"} :
         ov'[o].timer = FALSE => ov'[o].drawn = 0 /\ ov'[o].request = 0
  <2>1. \A o \in {"labels", "waterways"} : Sound(ov[o]) /\ ov'[o] = Visible(ov[o], on)
    BY <1>1, <1>2
  <2> QED BY <1>3, <2>1
<1>7. Far("buildings") => ov'["buildings"] \in {Off, [Off EXCEPT !.on = TRUE]}
  BY <1>1, <1>2, ActivatedFollows
<1>8. FarInv'
  BY <1>1, <1>6, <1>7 DEF FarInv
<1> QED BY <1>5, <1>8

(* A style that comes has no waterways, and the buildings it has are empty. *)
LEMMA StyleComesKeeps ==
    ASSUME OverlayInv, StyleInv, FarInv, NEW s, StyleComes(s), UNCHANGED <<view, stations>>
    PROVE  StyleInv' /\ FarInv'
<1>1. /\ InStyle = {"waterways", "buildings"} /\ InStyle \subseteq Overlays
      /\ {"labels", "waterways", "buildings"} \subseteq Overlays
      /\ \A o \in Overlays : Far(o)' <=> Far(o)
  BY DEF Overlays, MinZoom, InStyle, Far
<1>2. present' \subseteq InStyle /\ "waterways" \notin present'
  BY <1>1 DEF StyleComes
<1>3. /\ \A o \in InStyle : ov'[o].drawn = 0
      /\ ov'["labels"] = ov["labels"]
      /\ Far("buildings") => ov'["buildings"] \in {Off, [Off EXCEPT !.on = TRUE]}
  BY StyleComesFollows
<1>4. StyleInv'
  BY <1>2, <1>3 DEF StyleInv, stations
<1>5. FarInv'
  BY <1>1, <1>2, <1>3 DEF FarInv
<1> QED BY <1>4, <1>5

(* A switch of the source keeps what has been drawn fitting the style. *)
LEMMA SwitchKeepsStyle ==
    ASSUME OverlayInv, StyleInv, FarInv, SwitchStep
    PROVE  StyleInv' /\ FarInv'
<1>1. CASE UNCHANGED <<view, ov, present, adding, edits, edited>>
  BY <1>1 DEF StyleInv, FarInv, Far
<1>2. CASE StyleLoads
  BY <1>2, StyleComesKeeps DEF StyleLoads
<1>3. ASSUME NEW s \in TileSources, applyTileLayer(s) PROVE StyleInv' /\ FarInv'
  <2>1. /\ UNCHANGED <<view, stations>>
        /\ UNCHANGED <<present, ov>> \/ \E t : StyleComes(t)
    BY <1>3 DEF applyTileLayer, ToRaster, styleVars
  <2> QED BY <1>1, <2>1, StyleComesKeeps DEF stations
<1>4. ASSUME NEW sw \in switches, RasterShown(sw) \/ VectorShown(sw)
      PROVE  StyleInv' /\ FarInv'
  BY <1>4, NamedKeepsStyle DEF RasterShown, VectorShown
<1>5. ASSUME NEW sw \in switches,
             waitForStyleReady(sw) \/ ensureRasterCapableStyle(sw) \/ activateRasterSource(sw)
      PROVE  StyleInv' /\ FarInv'
  BY <1>1, <1>5 DEF waitForStyleReady, ensureRasterCapableStyle, activateRasterSource, overlayVars
<1> QED BY <1>2, <1>3, <1>4, <1>5 DEF SwitchStep

(* A raster source is the one shown or one that a switch waits for. *)
AllKnown == \A r \in rasters : r # current => \E w \in switches : w.at = "source" /\ w.gen = r

(* A vector source is shown whose style, or that of an earlier one, is late. *)
Late == coming # NoSource /\ baseLayerKind = "vector"

(* The switches under way and the rasters they have added. *)
RasterInv ==
    /\ generation \in 0..MaxSwitches
    /\ switches \subseteq [gen : 1..generation, source : TileSources, at : Waits]
    /\ \A a, b \in switches : a.gen = b.gen => a = b
    /\ rasters \subseteq 1..generation /\ current \in 0..generation
    /\ AllKnown \/ Late
    /\ baseLayerKind \in {"none", "raster", "vector"}
    /\ baseLayerKind = "none" => current = 0

(* Where the newest switch is tells what is on the map or coming: its style and
   nothing else, or its raster, unless a late style has come over it. *)
Fits(w) ==
    /\ w.at \in {"style", "painted"} =>
          coming = w.source \/ (coming = NoSource /\ style = w.source /\ rasters = {})
    /\ w.at = "painted" => current = 0 /\ baseLayerKind = "vector"
    /\ w.at \in {"blank", "source"} => ~Late
    /\ w.at \in {"source", "shown"} => w.gen \in rasters \/ (style # NoSource /\ rasters = {})
    /\ w.at = "shown" => baseLayerKind = "raster"
    /\ w.at = "shown" <=> current = w.gen
ShownInv == \A w \in switches : w.gen = generation => Fits(w)

(* The source that the page names, and the style of the map. *)
ModeInv ==
    /\ {style, coming, mode} \subseteq TileSources \cup {NoSource}
    /\ styled \in BOOLEAN

(* The next step of a switch, or its first one with the next number: the
   newest one is known by the counter, and all others are left alone. *)
Steps(sw) ==
    /\ sw \in [gen : 1..generation', source : TileSources, at : Waits]
    /\ \A a \in switches : a.gen = sw.gen => a = sw
    /\ generation' \in 0..MaxSwitches
    /\ \/ generation' = generation
       \/ generation' = generation + 1 /\ sw.gen = generation'
    /\ ~Stale(sw) => sw.gen = generation'

(* A switch that moves on or ends leaves the others as they are. *)
LEMMA SwitchesMove ==
    ASSUME RasterInv, NEW sw, Steps(sw), NEW at \in Waits, Ends(sw) \/ Awaits(sw, at)
    PROVE  /\ switches' \subseteq [gen : 1..generation', source : TileSources, at : Waits]
           /\ \A a, b \in switches' : a.gen = b.gen => a = b
           /\ \A w \in switches \ {sw} : w \in switches' /\ w.gen # sw.gen
           /\ \A w \in switches' :
                 \/ w \in switches \ {sw}
                 \/ w.gen = sw.gen /\ w.at = at /\ Awaits(sw, at)
           /\ Awaits(sw, at) =>
                 \E w \in switches' : w.gen = sw.gen /\ w.at = at
           /\ generation \in Nat /\ generation' \in Nat /\ generation <= generation'
<1> USE BaseMapAssumption
<1> DEFINE next == [sw EXCEPT !.at = at]
<1>1. /\ generation \in Nat /\ generation' \in Nat /\ generation <= generation'
      /\ \A n \in 1..generation : n \in 1..generation'
  BY DEF RasterInv, Steps
<1>2. /\ next \in [gen : 1..generation', source : TileSources, at : Waits]
      /\ next.gen = sw.gen /\ next.at = at
  BY DEF Steps
<1>3. \A w \in switches : w \in [gen : 1..generation', source : TileSources, at : Waits]
  BY <1>1 DEF RasterInv
<1>4. \A w \in switches \ {sw} : w.gen # sw.gen
  BY DEF Steps
<1>5. \A w \in switches' : w \in switches \ {sw} \/ (w = next /\ Awaits(sw, at))
  BY DEF Ends, Awaits
<1>6. \A w \in switches \ {sw} : w \in switches'
  BY DEF Ends, Awaits
<1>7. Awaits(sw, at) => next \in switches'
  BY DEF Awaits
<1> HIDE DEF next
<1>8. switches' \subseteq [gen : 1..generation', source : TileSources, at : Waits]
  BY <1>2, <1>3, <1>5
<1>9. \A a, b \in switches' : a.gen = b.gen => a = b
  BY <1>2, <1>4, <1>5 DEF RasterInv
<1> QED BY <1>1, <1>2, <1>4, <1>5, <1>6, <1>7, <1>8, <1>9

(* A step of a switch that waits for no source, and may add its raster or
   discard them all. *)
LEMMA RastersStep ==
    ASSUME RasterInv, NEW sw, Steps(sw), NEW at \in Waits, sw \in switches => sw.at # "source",
           UNCHANGED baseLayerKind, Late => Late' \/ rasters' = {},
           \/ (Ends(sw) \/ Awaits(sw, at)) /\ UNCHANGED <<rasters, current>>
           \/ Awaits(sw, at) /\ rasters' = {} /\ current' \in {0, current}
           \/ /\ Awaits(sw, at) /\ at = "source"
              /\ rasters' = rasters \cup {sw.gen} /\ UNCHANGED current
    PROVE  RasterInv'
<1> USE BaseMapAssumption
<1>1. /\ switches' \subseteq [gen : 1..generation', source : TileSources, at : Waits]
      /\ \A a, b \in switches' : a.gen = b.gen => a = b
      /\ \A w \in switches \ {sw} : w \in switches' /\ w.gen # sw.gen
      /\ Awaits(sw, at) =>
            \E w \in switches' : w.gen = sw.gen /\ w.at = at
      /\ generation \in Nat /\ generation' \in Nat /\ generation <= generation'
  BY SwitchesMove
<1>2. sw.gen \in 1..generation' /\ \A n \in 1..generation : n \in 1..generation'
  BY <1>1 DEF Steps
<1>3. /\ rasters' \subseteq 1..generation'
      /\ current' \in 0..generation'
  <2>1. rasters \subseteq 1..generation' /\ current \in 0..generation' /\ 0 \in 0..generation'
    BY <1>1, <1>2 DEF RasterInv
  <2>2. current' = current \/ current' = 0
    OBVIOUS
  <2>3. rasters' = rasters \/ rasters' = {} \/ rasters' = rasters \cup {sw.gen}
    OBVIOUS
  <2> QED BY <1>2, <2>1, <2>2, <2>3
<1>4. ASSUME AllKnown, NEW r \in rasters', r # current'
      PROVE  \E w \in switches' : w.at = "source" /\ w.gen = r
  <2>1. CASE r \in rasters /\ UNCHANGED <<current>>
    <3>1. PICK w \in switches : w.at = "source" /\ w.gen = r
      BY <1>4, <2>1 DEF AllKnown
    <3>2. w # sw
      BY <3>1
    <3> QED BY <1>1, <3>1, <3>2
  <2>2. CASE r \notin rasters
    <3>1. r = sw.gen /\ Awaits(sw, at) /\ at = "source"
      BY <1>4, <2>2
    <3> QED BY <1>1, <3>1
  <2>3. CASE r \in rasters /\ current' # current
    <3>1. rasters' = {}
      BY <2>3
    <3> QED BY <1>4, <3>1
  <2> QED BY <2>1, <2>2, <2>3
<1>5. AllKnown' \/ Late'
  <2>1. CASE rasters' = {}
    BY <2>1 DEF AllKnown
  <2>2. CASE AllKnown
    BY <1>4, <2>2 DEF AllKnown
  <2> QED BY <2>1, <2>2 DEF RasterInv
<1>6. baseLayerKind' \in {"none", "raster", "vector"} /\ (baseLayerKind' = "none" => current' = 0)
  BY DEF RasterInv
<1> QED BY <1>1, <1>3, <1>5, <1>6 DEF RasterInv, Steps

(* The raster part of a switch. *)
LEMMA ToRasterKeeps ==
    ASSUME RasterInv, NEW sw, Steps(sw), sw \in switches => sw.at # "source",
           UNCHANGED baseLayerKind, ToRaster(sw)
    PROVE  RasterInv'
<1>1. {"style", "blank", "source"} \subseteq Waits
  BY DEF Waits
<1>2. \/ (Ends(sw) \/ Awaits(sw, "blank")) /\ UNCHANGED <<coming, rasters, current>>
      \/ Awaits(sw, "blank") /\ rasters' = {} /\ current' = 0
      \/ /\ Awaits(sw, "source") /\ baseLayerKind = "raster"
         /\ rasters' = rasters \cup {sw.gen} /\ UNCHANGED current
  BY DEF ToRaster, AddRaster, StyleComes, styleVars
<1>3. Late => Late' \/ rasters' = {}
  BY <1>2 DEF Late
<1>4. CASE \/ (Ends(sw) \/ Awaits(sw, "blank")) /\ UNCHANGED <<coming, rasters, current>>
           \/ Awaits(sw, "blank") /\ rasters' = {} /\ current' = 0
  BY <1>1, <1>3, <1>4, RastersStep
<1>5. CASE /\ Awaits(sw, "source")
           /\ rasters' = rasters \cup {sw.gen} /\ UNCHANGED current
  BY <1>1, <1>3, <1>5, RastersStep
<1> QED BY <1>2, <1>4, <1>5

(* Every step keeps the rasters on the map those of known switches. *)
LEMMA RasterInvStep ==
    ASSUME RasterInv, ShownInv, [MapNext]_mapVars
    PROVE  RasterInv'
<1> USE BaseMapAssumption
<1>1. /\ generation \in Nat /\ {"style", "blank", "source", "painted", "shown"} = Waits
      /\ \A w \in switches : w \in [gen : 1..generation, source : TileSources, at : Waits]
  BY DEF RasterInv, Waits
<1>2. CASE UNCHANGED <<generation, switches, coming, rasters, current, baseLayerKind>>
  BY <1>2 DEF RasterInv, AllKnown, Late
<1>3. ASSUME NEW sw \in switches, generation' = generation
      PROVE  Steps(sw) /\ (~Stale(sw) => Fits(sw))
  <2>1. ~Stale(sw) => sw.gen = generation
    BY <1>1 DEF Stale
  <2> QED BY <1>1, <1>3, <2>1 DEF Steps, RasterInv, ShownInv
<1>4. ASSUME NEW s \in TileSources, applyTileLayer(s) PROVE RasterInv'
  <2> DEFINE sw == [gen |-> generation + 1, source |-> s, at |-> "style"]
  <2>1. generation' = generation + 1 /\ generation' \in 0..MaxSwitches /\ UNCHANGED baseLayerKind
    BY <1>1, <1>4 DEF applyTileLayer
  <2>2. /\ sw \in [gen : 1..generation', source : TileSources, at : Waits]
        /\ sw.gen = generation' /\ sw.at = "style"
    BY <1>1, <2>1
  <2>3. \A a \in switches : a.gen # generation'
    BY <1>1, <2>1
  <2>4. \/ Awaits(sw, "style") /\ coming' = s /\ UNCHANGED <<rasters, current>>
        \/ ToRaster(sw)
    BY <1>4 DEF applyTileLayer
  <2> HIDE DEF sw
  <2>5. Steps(sw)
    BY <2>1, <2>2, <2>3 DEF Steps
  <2>6. sw \in switches => sw.at # "source"
    BY <2>2
  <2>7. CASE Awaits(sw, "style") /\ coming' = s /\ UNCHANGED <<rasters, current>>
    <3>1. Late => Late'
      BY <2>1, <2>7 DEF Late
    <3> QED BY <1>1, <2>1, <2>5, <2>6, <2>7, <3>1, RastersStep
  <2>8. CASE ToRaster(sw)
    BY <2>1, <2>5, <2>6, <2>8, ToRasterKeeps
  <2> QED BY <2>4, <2>7, <2>8
<1>5. ASSUME NEW sw \in switches, ensureRasterCapableStyle(sw) PROVE RasterInv'
  <2>1. /\ sw.at = "blank" /\ UNCHANGED <<generation, coming, current, baseLayerKind>>
        /\ \/ Ends(sw) /\ UNCHANGED rasters
           \/ Awaits(sw, "source") /\ rasters' = rasters \cup {sw.gen}
    BY <1>5 DEF ensureRasterCapableStyle, AddRaster
  <2>2. Steps(sw) /\ "source" \in Waits /\ (Late => Late')
    BY <1>1, <1>3, <2>1 DEF Late
  <2> QED BY <2>1, <2>2, RastersStep
<1>6. ASSUME NEW sw \in switches, RasterShown(sw) \/ VectorShown(sw) PROVE RasterInv'
  <2>1. /\ sw.at \in {"shown", "painted"} /\ Ends(sw)
        /\ UNCHANGED <<generation, coming, rasters, current, baseLayerKind>>
    BY <1>6 DEF RasterShown, VectorShown
  <2>2. Steps(sw) /\ "source" \in Waits /\ (Late => Late')
    BY <1>1, <1>3, <2>1 DEF Late
  <2> QED BY <2>1, <2>2, RastersStep
<1>7. ASSUME NEW sw \in switches, waitForStyleReady(sw) PROVE RasterInv'
  <2>1. sw.at = "style" /\ UNCHANGED <<generation, coming, rasters>>
    BY <1>7 DEF waitForStyleReady
  <2>2. Steps(sw) /\ "painted" \in Waits
    BY <1>1, <1>3, <2>1
  <2>3. CASE Ends(sw) /\ UNCHANGED <<current, baseLayerKind>>
    <3>1. Late => Late'
      BY <2>1, <2>3 DEF Late
    <3> QED BY <2>1, <2>2, <2>3, <3>1, RastersStep
  <2>4. CASE ~Stale(sw) /\ current' = 0 /\ baseLayerKind' = "vector" /\ Awaits(sw, "painted")
    <3>1. coming # NoSource \/ rasters = {}
      BY <1>1, <1>3, <2>1, <2>4 DEF Fits
    <3>2. /\ switches' \subseteq [gen : 1..generation', source : TileSources, at : Waits]
          /\ \A a, b \in switches' : a.gen = b.gen => a = b
      BY <2>2, <2>4, SwitchesMove
    <3>3. 0 \in 0..generation
      BY <1>1
    <3>4. AllKnown' \/ Late'
      BY <2>1, <2>4, <3>1 DEF AllKnown, Late
    <3> QED BY <2>1, <2>4, <3>2, <3>3, <3>4 DEF RasterInv
  <2> QED BY <1>7, <2>3, <2>4 DEF waitForStyleReady
<1>8. ASSUME NEW sw \in switches, activateRasterSource(sw) PROVE RasterInv'
  <2>1. sw.at = "source" /\ UNCHANGED <<generation, coming>> /\ sw.gen \in 1..generation
    BY <1>1, <1>8 DEF activateRasterSource
  <2>2. Steps(sw) /\ "shown" \in Waits
    BY <1>1, <1>3, <2>1
  <2>3. Ends(sw) \/ Awaits(sw, "shown")
    BY <1>8 DEF activateRasterSource
  <2>4. /\ switches' \subseteq [gen : 1..generation', source : TileSources, at : Waits]
        /\ \A a, b \in switches' : a.gen = b.gen => a = b
        /\ \A w \in switches \ {sw} : w \in switches' /\ w.gen # sw.gen
    BY <2>2, <2>3, SwitchesMove
  <2>5. \/ rasters' = rasters \ {sw.gen} /\ UNCHANGED <<current, baseLayerKind>>
        \/ /\ ~Late /\ rasters' = rasters \ {current}
           /\ current' = sw.gen /\ baseLayerKind' = "raster"
    BY <1>3, <1>8, <2>1 DEF activateRasterSource, Fits
  <2>6. ASSUME AllKnown, NEW r \in rasters', r # current'
        PROVE  \E w \in switches' : w.at = "source" /\ w.gen = r
    <3>1. r \in rasters /\ r # current /\ r # sw.gen
      BY <2>5, <2>6
    <3>2. PICK w \in switches : w.at = "source" /\ w.gen = r
      BY <2>6, <3>1 DEF AllKnown
    <3> QED BY <2>4, <3>1, <3>2
  <2>7. AllKnown' \/ Late'
    <3>1. CASE AllKnown
      BY <2>6, <3>1 DEF AllKnown
    <3>2. CASE Late
      BY <2>1, <2>5, <3>2 DEF Late
    <3> QED BY <3>1, <3>2 DEF RasterInv
  <2>8. /\ rasters' \subseteq 1..generation' /\ current' \in 0..generation'
        /\ baseLayerKind' \in {"none", "raster", "vector"}
        /\ baseLayerKind' = "none" => current' = 0
    <3>1. sw.gen \in 0..generation
      BY <1>1, <2>1
    <3>2. current' = current \/ current' = sw.gen
      BY <2>5
    <3>3. rasters' \subseteq rasters
      BY <2>5
    <3> QED BY <2>1, <2>5, <3>1, <3>2, <3>3 DEF RasterInv
  <2> QED BY <2>1, <2>4, <2>7, <2>8 DEF RasterInv
<1>9. CASE StyleLoads
  <2>1. rasters' = {} /\ UNCHANGED <<generation, switches, current, baseLayerKind>>
    BY <1>9 DEF StyleLoads, StyleComes
  <2> QED BY <2>1 DEF RasterInv, AllKnown
<1>10. CASE UNCHANGED mapVars \/ UNCHANGED baseVars
  BY <1>2, <1>10 DEF mapVars, baseVars
<1> QED BY <1>4, <1>5, <1>6, <1>7, <1>8, <1>9, <1>10 DEF MapNext, SwitchStep

(* The newest switch, when it moves on or ends. *)
LEMMA NewestMoves ==
    ASSUME NEW sw, Steps(sw), sw.gen = generation', NEW at \in Waits,
           Ends(sw) \/ Awaits(sw, at)
    PROVE  \A w \in switches' : w.gen = generation' =>
              /\ Awaits(sw, at)
              /\ w.at = at /\ w.gen = sw.gen /\ w.source = sw.source
<1> DEFINE next == [sw EXCEPT !.at = at]
<1>1. next.at = at /\ next.gen = sw.gen /\ next.source = sw.source
  BY DEF Steps
<1>2. \A w \in switches \ {sw} : w.gen # sw.gen
  BY DEF Steps
<1>3. \A w \in switches' : w \in switches \ {sw} \/ (w = next /\ Awaits(sw, at))
  BY DEF Ends, Awaits
<1> HIDE DEF next
<1> QED BY <1>1, <1>2, <1>3

(* The raster part of the newest switch adds its raster or none. *)
LEMMA ToRasterFits ==
    ASSUME NEW sw, Steps(sw), sw.gen = generation', current # sw.gen,
           UNCHANGED baseLayerKind, ToRaster(sw)
    PROVE  ShownInv'
<1>1. sw.gen # 0 /\ {"style", "blank", "source"} \subseteq Waits
  BY BaseMapAssumption DEF Waits, Steps
<1>2. \/ Ends(sw)
      \/ Awaits(sw, "blank") /\ current' \in {0, current} /\ ~Late'
      \/ Awaits(sw, "source") /\ sw.gen \in rasters' /\ current' = current /\ ~Late'
  BY DEF ToRaster, AddRaster, StyleComes, Late
<1>3. CASE Ends(sw)
  <2>1. \A w \in switches' : w.gen # generation'
    BY <1>3 DEF Steps, Ends
  <2> QED BY <2>1 DEF ShownInv
<1>4. CASE Awaits(sw, "blank") /\ current' \in {0, current} /\ ~Late'
  <2>1. \A w \in switches' : w.gen = generation' => w.at = "blank" /\ w.gen = sw.gen
    BY <1>1, <1>4, NewestMoves
  <2> QED BY <1>1, <1>4, <2>1 DEF ShownInv, Fits
<1>5. CASE Awaits(sw, "source") /\ sw.gen \in rasters' /\ current' = current /\ ~Late'
  <2>1. \A w \in switches' : w.gen = generation' => w.at = "source" /\ w.gen = sw.gen
    BY <1>1, <1>5, NewestMoves
  <2> QED BY <1>5, <2>1 DEF ShownInv, Fits
<1> QED BY <1>2, <1>3, <1>4, <1>5

(* A switch that has been overtaken ends with its next step: it touches
   nothing of the base map but a raster of its own. *)
LEMMA StaleEnds ==
    ASSUME NEW sw \in switches, Stale(sw),
           \/ waitForStyleReady(sw) \/ ensureRasterCapableStyle(sw) \/ activateRasterSource(sw)
           \/ RasterShown(sw) \/ VectorShown(sw)
    PROVE  /\ Ends(sw) /\ UNCHANGED <<generation, style, coming, current, baseLayerKind>>
           /\ rasters' \in {rasters, rasters \ {sw.gen}}
BY DEF waitForStyleReady, ensureRasterCapableStyle, activateRasterSource, RasterShown, VectorShown

(* From the time the newest switch takes over until its source is named the
   map shows that source, or waits for its style. *)
LEMMA ShownStep ==
    ASSUME RasterInv, ShownInv, [MapNext]_mapVars
    PROVE  ShownInv'
<1> USE BaseMapAssumption
<1>1. /\ generation \in Nat /\ {"style", "blank", "source", "painted", "shown"} = Waits
      /\ \A w \in switches : w \in [gen : 1..generation, source : TileSources, at : Waits]
  BY DEF RasterInv, Waits
<1>2. CASE UNCHANGED <<generation, switches, style, coming, rasters, current, baseLayerKind>>
  BY <1>2 DEF ShownInv, Fits, Late
<1>3. CASE UNCHANGED mapVars \/ UNCHANGED baseVars
  BY <1>2, <1>3 DEF mapVars, baseVars
<1>4. CASE StyleLoads
  <2>1. /\ coming # NoSource /\ style' = coming /\ coming' = NoSource /\ rasters' = {}
        /\ UNCHANGED <<generation, switches, current, baseLayerKind>>
    BY <1>4 DEF StyleLoads, StyleComes
  <2> QED BY <2>1 DEF ShownInv, Fits, Late
<1>5. ASSUME NEW s \in TileSources, applyTileLayer(s) PROVE ShownInv'
  <2> DEFINE sw == [gen |-> generation + 1, source |-> s, at |-> "style"]
  <2>1. generation' = generation + 1 /\ generation' \in 0..MaxSwitches /\ UNCHANGED baseLayerKind
    BY <1>1, <1>5 DEF applyTileLayer
  <2>2. /\ sw \in [gen : 1..generation', source : TileSources, at : Waits]
        /\ sw.gen = generation' /\ sw.at = "style" /\ sw.source = s
    BY <1>1, <2>1
  <2>3. (\A a \in switches : a.gen # generation') /\ current # generation'
    BY <1>1, <2>1 DEF RasterInv
  <2>4. \/ Awaits(sw, "style") /\ coming' = s /\ UNCHANGED current
        \/ ToRaster(sw)
    BY <1>5 DEF applyTileLayer
  <2> HIDE DEF sw
  <2>5. Steps(sw)
    BY <2>1, <2>2, <2>3 DEF Steps
  <2>6. CASE Awaits(sw, "style") /\ coming' = s /\ UNCHANGED current
    <3>1. \A w \in switches' : w.gen = generation' =>
             w.at = "style" /\ w.gen = sw.gen /\ w.source = s
      BY <1>1, <2>2, <2>5, <2>6, NewestMoves
    <3> QED BY <2>2, <2>3, <2>6, <3>1 DEF ShownInv, Fits
  <2>7. CASE ToRaster(sw)
    BY <2>1, <2>2, <2>3, <2>5, <2>7, ToRasterFits
  <2> QED BY <2>4, <2>6, <2>7
<1>6. ASSUME NEW sw \in switches, Stale(sw),
             \/ waitForStyleReady(sw) \/ ensureRasterCapableStyle(sw) \/ activateRasterSource(sw)
             \/ RasterShown(sw) \/ VectorShown(sw)
      PROVE  ShownInv'
  <2>1. /\ Ends(sw) /\ UNCHANGED <<generation, style, coming, current, baseLayerKind>>
        /\ rasters' \in {rasters, rasters \ {sw.gen}}
    BY <1>6, StaleEnds
  <2>2. sw.gen # generation
    BY <1>1, <1>6 DEF Stale
  <2>3. switches' \subseteq switches
    BY <2>1 DEF Ends
  <2>4. ASSUME NEW w \in switches', w.gen = generation' PROVE Fits(w)'
    <3>1. w.gen = generation /\ Fits(w)
      BY <2>1, <2>3, <2>4 DEF ShownInv
    <3>2. /\ w.gen \in rasters => w.gen \in rasters'
          /\ rasters = {} => rasters' = {}
      BY <2>1, <2>2, <3>1
    <3> QED BY <2>1, <3>1, <3>2 DEF Fits, Late
  <2> QED BY <2>4 DEF ShownInv
<1>7. ASSUME NEW sw \in switches, ~Stale(sw), generation' = generation
      PROVE  /\ Steps(sw) /\ sw.gen = generation' /\ sw.gen # 0 /\ Fits(sw)
             /\ current # sw.gen \/ sw.at = "shown"
  <2>1. sw.gen = generation
    BY <1>1, <1>7 DEF Stale
  <2> QED BY <1>1, <1>7, <2>1 DEF Steps, RasterInv, ShownInv, Fits
<1>8. ASSUME NEW sw \in switches, ~Stale(sw), generation' = generation, Ends(sw)
      PROVE  ShownInv'
  <2>1. Steps(sw) /\ sw.gen = generation'
    BY <1>7, <1>8
  <2>2. \A w \in switches' : w.gen # generation'
    BY <1>8, <2>1 DEF Steps, Ends
  <2> QED BY <2>2 DEF ShownInv
<1>9. ASSUME NEW sw \in switches, ~Stale(sw), waitForStyleReady(sw) PROVE ShownInv'
  <2>1. sw.at = "style" /\ UNCHANGED <<generation, style, coming, rasters>>
    BY <1>9 DEF waitForStyleReady
  <2>2. /\ Steps(sw) /\ sw.gen = generation' /\ sw.gen # 0
        /\ coming = sw.source \/ (coming = NoSource /\ style = sw.source /\ rasters = {})
    BY <1>7, <1>9, <2>1 DEF Fits
  <2>3. CASE Ends(sw)
    BY <1>8, <1>9, <2>1, <2>3
  <2>4. CASE Awaits(sw, "painted") /\ current' = 0 /\ baseLayerKind' = "vector"
    <3>1. \A w \in switches' : w.gen = generation' =>
             w.at = "painted" /\ w.gen = sw.gen /\ w.source = sw.source
      BY <1>1, <2>2, <2>4, NewestMoves
    <3> QED BY <2>1, <2>2, <2>4, <3>1 DEF ShownInv, Fits
  <2> QED BY <1>9, <2>3, <2>4 DEF waitForStyleReady
<1>10. ASSUME NEW sw \in switches, ~Stale(sw), ensureRasterCapableStyle(sw) PROVE ShownInv'
  <2>1. sw.at = "blank" /\ UNCHANGED <<generation, coming, current, baseLayerKind>>
    BY <1>10 DEF ensureRasterCapableStyle
  <2>2. Steps(sw) /\ sw.gen = generation' /\ current' # sw.gen /\ ~Late'
    BY <1>7, <1>10, <2>1 DEF Fits, Late
  <2>3. CASE Ends(sw)
    BY <1>8, <1>10, <2>1, <2>3
  <2>4. CASE Awaits(sw, "source") /\ rasters' = rasters \cup {sw.gen}
    <3>1. \A w \in switches' : w.gen = generation' => w.at = "source" /\ w.gen = sw.gen
      BY <1>1, <2>2, <2>4, NewestMoves
    <3> QED BY <2>2, <2>4, <3>1 DEF ShownInv, Fits
  <2> QED BY <1>10, <2>3, <2>4 DEF ensureRasterCapableStyle, AddRaster
<1>11. ASSUME NEW sw \in switches, ~Stale(sw), activateRasterSource(sw) PROVE ShownInv'
  <2>1. sw.at = "source" /\ UNCHANGED <<generation, style>>
    BY <1>11 DEF activateRasterSource
  <2>2. /\ Steps(sw) /\ sw.gen = generation' /\ current # sw.gen
        /\ sw.gen \in rasters \/ (style # NoSource /\ rasters = {})
    BY <1>7, <1>11, <2>1 DEF Fits
  <2>3. CASE Ends(sw)
    BY <1>8, <1>11, <2>1, <2>3
  <2>4. CASE /\ Awaits(sw, "shown") /\ rasters' = rasters \ {current}
             /\ current' = sw.gen /\ baseLayerKind' = "raster"
    <3>1. \A w \in switches' : w.gen = generation' => w.at = "shown" /\ w.gen = sw.gen
      BY <1>1, <2>2, <2>4, NewestMoves
    <3>2. sw.gen \in rasters' \/ (style' # NoSource /\ rasters' = {})
      BY <2>1, <2>2, <2>4
    <3> QED BY <2>4, <3>1, <3>2 DEF ShownInv, Fits
  <2> QED BY <1>11, <2>3, <2>4 DEF activateRasterSource
<1>12. ASSUME NEW sw \in switches, ~Stale(sw), RasterShown(sw) \/ VectorShown(sw)
       PROVE  ShownInv'
  BY <1>8, <1>12 DEF RasterShown, VectorShown
<1> QED BY <1>3, <1>4, <1>5, <1>6, <1>9, <1>10, <1>11, <1>12 DEF MapNext, SwitchStep

(* Only a switch to a source has the page name it. *)
LEMMA ModeStep ==
    ASSUME RasterInv, ModeInv, [MapNext]_mapVars
    PROVE  ModeInv'
<1>1. CASE UNCHANGED <<style, coming, mode, styled>>
  BY <1>1 DEF ModeInv
<1>2. ASSUME NEW s \in TileSources, applyTileLayer(s) PROVE ModeInv'
  <2>1. /\ mode' = mode /\ styled' \in BOOLEAN
        /\ {style', coming'} \subseteq {style, coming, s, NoSource}
    BY <1>2 DEF applyTileLayer, ToRaster, StyleComes, styleVars, ModeInv
  <2> QED BY <2>1 DEF ModeInv
<1>3. ASSUME NEW sw \in switches, RasterShown(sw) \/ VectorShown(sw) PROVE ModeInv'
  <2>1. sw.source \in TileSources /\ isTinyTilesSettings(sw.source) \in BOOLEAN
    BY DEF RasterInv, isTinyTilesSettings
  <2>2. /\ mode' = sw.source /\ UNCHANGED <<style, coming>>
        /\ styled' = styled \/ styled' = isTinyTilesSettings(sw.source)
    BY <1>3 DEF RasterShown, VectorShown, Named
  <2> QED BY <2>1, <2>2 DEF ModeInv
<1>4. ASSUME NEW sw \in switches,
             waitForStyleReady(sw) \/ ensureRasterCapableStyle(sw) \/ activateRasterSource(sw)
      PROVE  ModeInv'
  BY <1>1, <1>4 DEF waitForStyleReady, ensureRasterCapableStyle, activateRasterSource
<1>5. CASE StyleLoads
  <2>1. style' = coming /\ coming' = NoSource /\ UNCHANGED <<mode, styled>>
    BY <1>5 DEF StyleLoads, StyleComes
  <2> QED BY <2>1 DEF ModeInv
<1>6. CASE UNCHANGED mapVars \/ UNCHANGED baseVars
  BY <1>1, <1>6 DEF mapVars, baseVars
<1> QED BY <1>2, <1>3, <1>4, <1>5, <1>6 DEF MapNext, SwitchStep

MapInv ==
    OverlayInv /\ AnswersInv /\ StyleInv /\ FarInv /\ RasterInv /\ ShownInv /\ ModeInv

(* The page starts with no source, every overlay off. *)
LEMMA MapInitial == BaseMapInit => MapInv
<1> SUFFICES ASSUME BaseMapInit PROVE MapInv
  OBVIOUS
<1> USE OverlaysAssumption, BaseMapAssumption DEF BaseMapInit, OverlaysInit
<1>1. /\ view \in [zoom : Zooms, at : 1..(MaxMoves + 1)] /\ view.at = 1
      /\ DOMAIN ov = Overlays /\ ov = [o \in Overlays |-> ov[o]]
      /\ \A o \in Overlays : ov[o] = Off
      /\ {"labels", "waterways", "buildings"} \subseteq Overlays /\ InStyle \subseteq Overlays
  BY DEF Overlays, MinZoom, InStyle
<1>2. OverlayInv
  BY <1>1, OffIsSound, FS_EmptySet DEF OverlayInv
<1>3. AnswersInv
  BY <1>1, OffIsSound DEF AnswersInv
<1>4. StyleInv
  <2>1. \A o \in Overlays : ov[o].drawn = 0 /\ ov[o].on = FALSE
    BY <1>1, OffIsSound
  <2>2. 0 \in 0..MaxEdits
    OBVIOUS
  <2>3. \A o \in InStyle \ present : ov[o].drawn = 0
    BY <1>1, <2>1
  <2>4. present = {} /\ adding = FALSE /\ edits = 0 /\ edited = 0
    OBVIOUS
  <2>5. edits \in 0..MaxEdits /\ edited \in 0..MaxEdits /\ edits <= edited
    BY <2>2, <2>4
  <2> QED BY <2>3, <2>4, <2>5 DEF StyleInv
<1>5. FarInv
  BY <1>1, OffIsSound DEF FarInv
<1>6. RasterInv
  BY DEF RasterInv, AllKnown
<1>7. ShownInv /\ ModeInv
  BY DEF ShownInv, ModeInv
<1> QED BY <1>2, <1>3, <1>4, <1>5, <1>6, <1>7 DEF MapInv

(* No step draws an overlay that the style does not have, or too far out. *)
LEMMA StyleStep ==
    ASSUME OverlayInv, StyleInv, FarInv, [MapNext]_mapVars
    PROVE  StyleInv' /\ FarInv'
<1>1. CASE UNCHANGED mapVars
  BY <1>1 DEF mapVars, overlayVars, stations, StyleInv, FarInv, Far
<1> QED BY <1>1, OverlayStepKeepsStyle, SwitchKeepsStyle DEF MapNext

(* MapInv is inductive: it holds of every state of the map. *)
THEOREM MapInvariant == MapSpec => []MapInv
<1>1. MapInv /\ [MapNext]_mapVars => MapInv'
  <2> SUFFICES ASSUME MapInv, [MapNext]_mapVars PROVE MapInv'
    OBVIOUS
  <2>1. OverlayInv' /\ AnswersInv'
    BY OverlayKinds, CalmKeeps, RequestKeeps, DrawKeeps DEF MapInv
  <2> QED BY <2>1, StyleStep, RasterInvStep, ShownStep, ModeStep DEF MapInv
<1> QED BY <1>1, MapInitial, PTL DEF MapSpec

(* Every variable of the map and its overlays has its type. *)
THEOREM MapTypeCorrect == MapSpec => []BaseMapTypeOK
<1>1. MapInv => BaseMapTypeOK
  <2> SUFFICES ASSUME MapInv PROVE BaseMapTypeOK
    OBVIOUS
  <2>1. /\ ov \in [Overlays -> OverlayStates]
        /\ \A o \in Overlays : ov[o].timer => ov[o].on
    BY OffIsSound DEF MapInv, OverlayInv, Sound, OverlayStates
  <2>2. OverlaysTypeOK
    BY <2>1 DEF MapInv, OverlayInv, StyleInv, OverlayStates, OverlaysTypeOK
  <2> QED BY <2>2 DEF MapInv, RasterInv, ModeInv, BaseMapTypeOK
<1> QED BY <1>1, MapInvariant, PTL

(* No late answer draws on an overlay that is off, or on one of the offline
   map that has been cleared because the map is too far out. *)
THEOREM UnwantedIsNotDrawn == MapSpec => []OnlyWantedIsDrawn
<1>1. MapInv => OnlyWantedIsDrawn
  <2> SUFFICES ASSUME MapInv PROVE OnlyWantedIsDrawn
    OBVIOUS
  <2>1. \A o \in Overlays : /\ ov[o].on \in BOOLEAN /\ ov[o].timer \in BOOLEAN
                            /\ (ov[o].on = FALSE => ov[o].drawn = 0)
    BY OffIsSound DEF MapInv, OverlayInv, Sound, OverlayStates
  <2>2. {"labels", "waterways", "buildings"} \subseteq Overlays
    BY DEF Overlays, MinZoom
  <2>3. Far("buildings") => ov["buildings"].drawn = 0
    BY OffIsSound DEF MapInv, FarInv
  <2> QED BY <2>1, <2>2, <2>3 DEF MapInv, FarInv, OnlyWantedIsDrawn
<1> QED BY <1>1, MapInvariant, PTL

(* However switches of the source interleave, no raster source is left behind,
   and what the newest switch has taken over for is what the map shows until
   the page names it; a style that is late may come over it. *)
THEOREM NothingIsLeftBehind == MapSpec => []LayersFitTheMap
<1>1. MapInv => LayersFitTheMap
  <2> SUFFICES ASSUME MapInv PROVE LayersFitTheMap
    OBVIOUS
  <2>1. \/ rasters \subseteq {current} \cup {sw.gen : sw \in {w \in switches : w.at = "source"}}
        \/ coming # NoSource /\ baseLayerKind = "vector"
    BY DEF MapInv, RasterInv, AllKnown, Late
  <2>2. ASSUME NEW sw \in switches, sw.at \in {"painted", "shown"}, ~Stale(sw) PROVE Shows(sw)
    <3>1. sw.gen = generation
      BY <2>2, BaseMapAssumption DEF MapInv, RasterInv, Stale
    <3> QED BY <2>2, <3>1 DEF MapInv, ShownInv, Fits, Shows
  <2> QED BY <2>1, <2>2 DEF LayersFitTheMap
<1> QED BY <1>1, MapInvariant, PTL

(* What is drawn is never replaced by the answer to an earlier request. *)
THEOREM DrawingsAreNewest == MapSpec => NewestViewIsDrawn
<1>1. ASSUME MapInv, [MapNext]_mapVars, NEW o \in Overlays,
             ov'[o].drawn \notin {0, ov[o].drawn}
      PROVE  /\ ov'[o].drawn > ov[o].drawn
             /\ \A a \in answers : a.o = o => a.at <= ov'[o].drawn
  <2>1. /\ \A p \in Overlays : ov[p].drawn \in Nat /\ ov[p] \in OverlayStates
        /\ DOMAIN ov = Overlays /\ ov = [p \in Overlays |-> ov[p]]
        /\ \A a \in answers : a.at \in Nat /\ a.o \in Overlays
    BY <1>1, OverlaysAssumption DEF MapInv, OverlayInv, Sound, OverlayStates
  <2>2. CASE Calm
    BY <1>1, <2>2 DEF Calm, Follows
  <2>3. ASSUME NEW p \in Overlays, Request(p) PROVE FALSE
    <3>1. \/ ov'[o] = ov[o]
          \/ ov'[o] = [ov[o] EXCEPT !.timer = FALSE, !.request = FreshId(o)]
      BY <2>1, <2>3 DEF Request
    <3>2. [ov[o] EXCEPT !.timer = FALSE, !.request = FreshId(o)].drawn = ov[o].drawn
      BY <2>1 DEF OverlayStates
    <3> QED BY <1>1, <3>1, <3>2
  <2>4. ASSUME NEW a \in answers, Draws(a)
        PROVE  /\ ov'[o].drawn > ov[o].drawn
               /\ \A b \in answers : b.o = o => b.at <= ov'[o].drawn
    <3>1. /\ ov' = [ov EXCEPT ![a.o].drawn = a.at] /\ a.id = ov[a.o].request
      BY <2>4 DEF Draws
    <3>2. o = a.o
      BY <1>1, <2>1, <3>1
    <3>3. ov'[o] = [ov[o] EXCEPT !.drawn = a.at]
      BY <2>1, <3>1, <3>2
    <3>4. ov'[o].drawn = a.at
      BY <2>1, <3>3 DEF OverlayStates
    <3>5. ov[o].drawn <= a.at /\ \A b \in answers : b.o = o => b.at <= a.at
      BY <1>1, <3>1, <3>2 DEF MapInv, AnswersInv
    <3> QED BY <1>1, <2>1, <3>4, <3>5
  <2>5. OverlayInv
    BY <1>1 DEF MapInv
  <2> QED BY <1>1, <2>2, <2>3, <2>4, <2>5, OverlayKinds
<1>2. MapInv /\ [MapNext]_mapVars =>
         [\A o \in Overlays :
             ov'[o].drawn \notin {0, ov[o].drawn}
             => /\ ov'[o].drawn > ov[o].drawn
                /\ \A a \in answers : a.o = o => a.at <= ov'[o].drawn]_overlayVars
  BY <1>1
<1> QED BY <1>2, MapInvariant, PTL DEF MapSpec, NewestViewIsDrawn

(* A switch that has been overtaken by a newer one changes neither the layer
   that is shown nor the kind of the base map. *)
THEOREM OvertakenSwitchesStop == MapSpec => NewestSwitchWins
<1>1. ASSUME MapInv, [MapNext]_mapVars
      PROVE  /\ current' \notin {0, current} => current' = generation
             /\ baseLayerKind' # baseLayerKind =>
                   \E sw \in switches : sw.gen = generation /\ sw \notin switches'
  <2>1. /\ generation \in Nat
        /\ \A sw \in switches : /\ sw.gen \in 1..generation
                                /\ sw \in [gen : 1..generation, source : TileSources, at : Waits]
    BY <1>1, BaseMapAssumption DEF MapInv, RasterInv
  <2>2. ASSUME NEW sw \in switches, ~Stale(sw), NEW at \in Waits, sw.at # at, Awaits(sw, at)
        PROVE  sw.gen = generation /\ sw \notin switches'
    <3>1. sw.gen = generation
      BY <2>1, <2>2 DEF Stale
    <3>2. [sw EXCEPT !.at = at].at = at
      BY <2>1
    <3>3. sw # [sw EXCEPT !.at = at]
      BY <2>2, <3>2
    <3> QED BY <2>2, <3>1, <3>3 DEF Awaits
  <2>3. "painted" \in Waits /\ "shown" \in Waits
    BY DEF Waits
  <2>4. ASSUME NEW sw \in switches, waitForStyleReady(sw)
        PROVE  /\ current' \in {0, current}
               /\ baseLayerKind' # baseLayerKind => sw.gen = generation /\ sw \notin switches'
    BY <2>2, <2>3, <2>4 DEF waitForStyleReady
  <2>5. ASSUME NEW sw \in switches, activateRasterSource(sw)
        PROVE  /\ current' # current => current' = generation
               /\ baseLayerKind' # baseLayerKind => sw.gen = generation /\ sw \notin switches'
    <3>1. CASE UNCHANGED <<current, baseLayerKind>>
      BY <3>1
    <3>2. CASE ~Stale(sw) /\ Awaits(sw, "shown") /\ current' = sw.gen /\ sw.at = "source"
      BY <2>2, <2>3, <3>2
    <3> QED BY <2>5, <3>1, <3>2 DEF activateRasterSource
  <2>6. ASSUME baseLayerKind' = baseLayerKind, current' \in {0, current}
        PROVE  /\ current' \notin {0, current} => current' = generation
               /\ baseLayerKind' # baseLayerKind =>
                     \E sw \in switches : sw.gen = generation /\ sw \notin switches'
    BY <2>6
  <2>7. CASE \/ \E s \in TileSources : applyTileLayer(s)
             \/ \E sw \in switches :
                   ensureRasterCapableStyle(sw) \/ RasterShown(sw) \/ VectorShown(sw)
    <3>1. baseLayerKind' = baseLayerKind /\ current' \in {0, current}
      BY <2>7 DEF applyTileLayer, ensureRasterCapableStyle, RasterShown, VectorShown, ToRaster
    <3> QED BY <2>6, <3>1
  <2>8. CASE StyleLoads \/ UNCHANGED baseVars \/ UNCHANGED mapVars
    BY <2>6, <2>8 DEF StyleLoads, mapVars, baseVars
  <2> QED BY <1>1, <2>4, <2>5, <2>7, <2>8 DEF MapNext, SwitchStep
<1>2. MapInv /\ [MapNext]_mapVars =>
         [/\ current' \notin {0, current} => current' = generation
          /\ baseLayerKind' # baseLayerKind =>
                \E sw \in switches : sw.gen = generation /\ sw \notin switches']_mapVars
  BY <1>1
<1> QED BY <1>2, MapInvariant, PTL DEF MapSpec, NewestSwitchWins

-----------------------------------------------------------------------------
(* The page: what is proved of the map, the panel and the route planning     *)
(* holds of every behaviour in which a part of the page moves.               *)
THEOREM PageIsItsParts == Spec => MapSpec /\ PanelSpec /\ PlanSpec
<1>1. Init => BaseMapInit /\ PanelInit /\ PlanInit
  BY DEF Init
<1>2. [Next]_<<mapVars, panelVars, planVars, part>> =>
        [MapNext]_mapVars /\ [PanelStep]_panelVars /\ [PlanNext]_planVars
  BY DEF Next, Overlay, Plan, MapNext, PlanNext, RouteStep
<1> QED BY <1>1, <1>2, PTL DEF Spec, MapSpec, PanelSpec, PlanSpec

(* The variables of the page keep their types. *)
THEOREM PageTypeCorrect == Spec => []PageTypeOK
<1>1. BaseMapTypeOK /\ PanelTypeOK /\ PlanTypeOK => PageTypeOK
  BY DEF PageTypeOK
<1> QED BY <1>1, PageIsItsParts, MapTypeCorrect, PanelTypeCorrect, PlanTypeCorrect, PTL
=============================================================================
