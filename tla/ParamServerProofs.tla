------------------------- MODULE ParamServerProofs -------------------------
(* Theorems about ParamServer: any params, ranges, bounds. *)
EXTENDS ParamServer, TLAPS

----------------------------------------------------------------------------
(* The inductive invariant *)

\* The requests that are somewhere.
Known == inbox \cup drained \cup parked \cup done

\* A request's number names it, and is none of the future.
Numbered ==
  /\ \A r \in Known : r.n <= changes
  /\ \A r, q \in Known : r.n = q.n => r = q

\* A request is in one place.
Apart ==
  /\ inbox \cap (drained \cup parked \cup done) = {}
  /\ drained \cap (parked \cup done) = {}
  /\ parked \cap done = {}

\* What is history's, and what the batch lists.
Nested ==
  /\ listed \subseteq inbox
  /\ batch \subseteq applied /\ applied \subseteq done /\ durable \subseteq done

\* First come, first served.
InTurn ==
  /\ \A r \in done \cup drained, q \in inbox : r.n < q.n
  /\ \A r \in done, q \in drained : r.n < q.n
  /\ \A r \in listed, q \in inbox \ listed : r.n < q.n

\* Which step has what at hand.
Steps ==
  /\ status = "down" => pc = "wait" /\ applied = {}
  /\ pc = "boot" => applied = {}
  /\ pc # "read" => listed = {} /\ drained = {}
  /\ ~persist => batch = {}
  /\ pc = "replace" => scratch = {params}

\* A copy of the params holds what applied requests and edits made of them.
Sound(vals, known, ok, most) ==
  \A k \in Keys :
    /\ vals[k].by <= most
    /\ \A r \in known : vals[k].by = r.n => r \in ok /\ vals[k].val \in InRange[k]

Copies ==
  \A vals \in {params, cell.vals, file} \cup scratch : Sound(vals, Known, done, changes)

\* A copy is no older than the requests of S.
Covers(vals, S) == \A r \in S : vals[r.key].by >= r.n

Covered ==
  /\ Covers(params, applied \cup durable)
  /\ Covers(file, durable)
  /\ (pc = "read" /\ changed) \/ pc = "boot" \/ fails # 0 \/ Covers(cell.vals, applied)

\* The frame_id against what the reader has.
Framed ==
  /\ cell.fid <= frame
  /\ fresh => last <= cell.fid
  /\ fresh /\ last = cell.fid => shown = cell.vals

SInv ==
  /\ TypeOK /\ Numbered /\ Apart /\ Nested /\ InTurn /\ Steps /\ Copies /\ Covered
  /\ Framed

----------------------------------------------------------------------------
(* Initially *)

LEMMA BlankTyped == Blank \in Params
<1>1. [val |-> 0, by |-> 0] \in Param
  BY ParamsAssumption DEF Param
<1>2. QED
  BY <1>1 DEF Blank, Params

LEMMA InvInit == Init => SInv
<1> SUFFICES ASSUME Init PROVE SInv
  OBVIOUS
<1>1. file \in Params /\ \A k \in Keys : file[k].by = 0
  <2>1. ASSUME NEW v \in Values
        PROVE [val |-> v, by |-> 0] \in Param /\ [val |-> v, by |-> 0].by = 0
    BY ParamsAssumption DEF Param
  <2>2. file \in [Keys -> {[val |-> v, by |-> 0] : v \in Values \ {0}}]
    BY DEF Init
  <2>3. ASSUME NEW k \in Keys PROVE file[k] \in Param /\ file[k].by = 0
    <3>1. PICK v \in Values : file[k] = [val |-> v, by |-> 0]
      BY <2>2
    <3>2. QED
      BY <2>1, <3>1
  <2>4. QED
    BY <2>2, <2>3 DEF Params
<1>2. TypeOK
  <2>1. /\ params = file /\ cell = [fid |-> 1, vals |-> file] /\ frame = 1 /\ fails = 0
        /\ status = "up" /\ pc = "wait" /\ changes = 0 /\ stops = 0
    BY DEF Init
  <2>2. cell \in [fid : Nat, vals : Params]
    BY <1>1, <2>1
  <2>3. /\ inbox = {} /\ parked = {} /\ scratch = {} /\ listed = {} /\ drained = {}
        /\ batch = {} /\ applied = {} /\ durable = {} /\ done = {}
        /\ changed = FALSE /\ persist = FALSE /\ last = -1 /\ shown = Blank /\ fresh = FALSE
    BY DEF Init
  <2>4. /\ changes \in 0..MaxChanges /\ stops \in 0..MaxStops /\ frame \in Nat
        /\ fails \in 0..(WRITE_FAIL_LIMIT - 1)
        /\ last \in Nat \cup {-1}
    BY <2>1, <2>3, ParamsAssumption
  <2>5. QED
    BY <1>1, <2>1, <2>2, <2>3, <2>4, BlankTyped DEF TypeOK
<1>3. Known = {}
  BY DEF Init, Known
<1>4. Copies
  <2>0. changes = 0
    BY DEF Init
  <2>1. Sound(file, Known, done, changes)
    <3>1. ASSUME NEW k \in Keys PROVE file[k].by <= changes
      <4>1. file[k].by = 0
        BY <1>1
      <4>2. QED
        BY <2>0, <4>1
    <3>2. QED
      BY <1>3, <3>1 DEF Sound
  <2>2. params = file /\ cell = [fid |-> 1, vals |-> file] /\ scratch = {}
    BY DEF Init
  <2>3. cell.vals = file
    BY <2>2
  <2>4. ASSUME NEW vals \in {params, cell.vals, file} \cup scratch PROVE vals = file
    BY <2>2, <2>3
  <2>5. QED
    BY <2>1, <2>4 DEF Copies
<1>5. Covered /\ Framed
  BY DEF Init, Covered, Covers, Framed
<1>6. QED
  BY <1>2, <1>3, <1>4, <1>5 DEF Init, SInv, Numbered, Apart, Nested, InTurn, Steps

----------------------------------------------------------------------------
(* Facts about copies *)

LEMMA ByTyped ==
  ASSUME NEW vals \in Params, NEW k \in Keys
  PROVE  vals[k].by \in Nat /\ vals[k].val \in Values
<1>1. vals[k] \in Param
  BY DEF Params
<1>2. QED
  BY <1>1, ParamsAssumption DEF Param

\* What is sound stays so while nothing new is known and no less is applied.
LEMMA SoundKept ==
  ASSUME NEW vals, NEW known, NEW known2 \in SUBSET known, NEW ok, NEW ok2, ok \subseteq ok2,
         NEW most \in Nat, NEW most2 \in Nat, most <= most2, vals \in Params,
         Sound(vals, known, ok, most)
  PROVE  Sound(vals, known2, ok2, most2)
<1>1. ASSUME NEW k \in Keys PROVE vals[k].by <= most2
  <2>1. vals[k].by \in Nat
    BY ByTyped
  <2>2. vals[k].by <= most
    BY DEF Sound
  <2>3. QED
    BY <2>1, <2>2
<1>2. ASSUME NEW k \in Keys, NEW r \in known2, vals[k].by = r.n
      PROVE  r \in ok2 /\ vals[k].val \in InRange[k]
  <2>1. r \in known
    OBVIOUS
  <2>2. r \in ok /\ vals[k].val \in InRange[k]
    BY <1>2, <2>1 DEF Sound
  <2>3. QED
    BY <2>2
<1>3. QED
  BY <1>1, <1>2 DEF Sound

\* Every copy that is not written stays sound.
LEMMA CopiesKept ==
  ASSUME SInv, changes' \in Nat, changes <= changes', Known' \subseteq Known,
         done \subseteq done', NEW vals \in {params, cell.vals, file} \cup scratch
  PROVE  Sound(vals, Known', done', changes')
<1>1. vals \in Params /\ changes \in Nat
  BY ParamsAssumption DEF SInv, TypeOK
<1>2. Sound(vals, Known, done, changes)
  BY DEF SInv, Copies
<1>3. QED
  BY <1>1, <1>2, SoundKept

LEMMA BlankSound ==
  ASSUME TypeOK, Known \subseteq Request PROVE Sound(Blank, Known, done, changes)
BY ParamsAssumption DEF Sound, Blank, TypeOK, Request

LEMMA KnownTyped == TypeOK => Known \subseteq Request
BY DEF TypeOK, Known

\* A step that changes no place of a request and no copy but by copying.
LEMMA Quiet ==
  ASSUME SInv, UNCHANGED <<changes, inbox, parked, drained, done>>,
         {params', cell'.vals, file'} \cup scratch'
           \subseteq {params, cell.vals, file} \cup scratch
  PROVE  Numbered' /\ Apart' /\ Copies' /\ Known' = Known
<1>1. Known' = Known
  BY DEF Known
<1>2. Copies'
  BY <1>1 DEF Copies, SInv
<1>3. QED
  BY <1>1, <1>2 DEF SInv, Numbered, Apart

----------------------------------------------------------------------------
(* Types *)

\* Setting one param keeps the type of a copy.
LEMMA SetTyped ==
  ASSUME NEW vals \in Params, NEW k, NEW v \in Values, NEW n \in 0..MaxChanges
  PROVE  [vals EXCEPT ![k] = [val |-> v, by |-> n]] \in Params
BY DEF Params, Param

LEMMA TypeStep == TypeOK /\ [Next]_vars => TypeOK'
<1> SUFFICES ASSUME TypeOK, [Next]_vars PROVE TypeOK'
  OBVIOUS
<1> USE ParamsAssumption
<1> USE DEF boxes, board, work, reader, history, At, Rest
<1>1. CASE Submit
  <2>1. changes' \in 0..MaxChanges /\ changes + 1 \in 1..MaxChanges
    BY <1>1 DEF Submit, TypeOK
  <2>2. PICK k \in Keys, v \in Values \cup {Misfit}, p \in BOOLEAN :
          inbox' = inbox \cup {[n |-> changes + 1, key |-> k, val |-> v, persist |-> p]}
    BY <1>1 DEF Submit
  <2>3. inbox' \subseteq Request
    BY <2>1, <2>2 DEF TypeOK, Request
  <2>4. QED
    BY <1>1, <2>1, <2>3 DEF Submit, TypeOK
<1>2. CASE EditFile
  <2>1. changes' \in 0..MaxChanges /\ changes + 1 \in 0..MaxChanges
    BY <1>2 DEF EditFile, TypeOK
  <2>2. PICK k \in Keys, v \in Values :
          file' = [file EXCEPT ![k] = [val |-> v, by |-> changes + 1]]
    BY <1>2 DEF EditFile
  <2>3. file' \in Params
    BY <2>1, <2>2, SetTyped DEF TypeOK
  <2>4. QED
    BY <1>2, <2>1, <2>3 DEF EditFile, TypeOK
<1>3. CASE Poll
  <2>1. last' \in Nat \cup {-1} /\ shown' \in Params /\ fresh' \in BOOLEAN
    BY <1>3 DEF Poll, TypeOK
  <2>2. QED
    BY <1>3, <2>1 DEF Poll, TypeOK
<1>4. CASE Tick
  BY <1>4 DEF Tick, TypeOK
<1>5. CASE ReadOne
  BY <1>5 DEF ReadOne, Unlinked, TypeOK
<1>6. CASE Reject
  BY <1>6 DEF Reject, TypeOK
<1>7. CASE Apply
  <2>1. PICK r \in drained :
          /\ Valid(r) /\ drained' = drained \ {r}
          /\ params' = [params EXCEPT ![r.key] = [val |-> r.val, by |-> r.n]]
          /\ changed' = TRUE /\ persist' = PersistAfter(r)
          /\ batch' = IF r.persist THEN batch \cup {r} ELSE batch
          /\ applied' = applied \cup {r} /\ done' = done \cup {r}
    BY <1>7 DEF Apply
  <2>2. r \in Request
    BY DEF TypeOK
  <2>3. r.n \in 0..MaxChanges /\ r.val \in Values
    BY <2>1, <2>2 DEF Valid, Request
  <2>4. params' \in Params
    BY <2>1, <2>3, SetTyped DEF TypeOK
  <2>5. persist' \in BOOLEAN
    BY <2>1, <2>2 DEF PersistAfter, Request, TypeOK
  <2>6. /\ drained' \subseteq Request /\ batch' \subseteq Request
        /\ applied' \subseteq Request /\ done' \subseteq Request
    BY <2>1, <2>2 DEF TypeOK
  <2>7. QED
    BY <1>7, <2>1, <2>4, <2>5, <2>6 DEF Apply, TypeOK
<1>8. ASSUME PublishParams
      PROVE  /\ frame' \in Nat /\ cell' \in [fid : Nat, vals : Params]
             /\ fails' \in 0..(WRITE_FAIL_LIMIT - 1)
  BY <1>8 DEF PublishParams, NextFrame, Content, TypeOK
<1>9. CASE Publish
  <2>1. /\ frame' \in Nat /\ cell' \in [fid : Nat, vals : Params]
        /\ fails' \in 0..(WRITE_FAIL_LIMIT - 1)
    BY <1>8, <1>9 DEF Publish, TypeOK
  <2>2. pc' \in {"save", "wait"} /\ durable' \subseteq Request
    BY <1>9 DEF Publish, TypeOK
  <2>3. QED
    BY <1>9, <2>1, <2>2 DEF Publish, TypeOK
<1>10. CASE SaveScratch
  BY <1>10 DEF SaveScratch, TypeOK
<1>11. CASE SaveReplace
  BY <1>11 DEF SaveReplace, TypeOK
<1>12. CASE Kill \/ PublishRaises
  <2>1. stops' \in 0..MaxStops /\ fails' \in 0..(WRITE_FAIL_LIMIT - 1)
    BY <1>12 DEF Kill, PublishRaises, Died, TypeOK
  <2>2. QED
    BY <1>12, <2>1 DEF Kill, PublishRaises, Died, TypeOK
<1>13. CASE Boot
  <2>1. cell' \in [fid : Nat, vals : Params] /\ fails' \in 0..(WRITE_FAIL_LIMIT - 1)
    BY <1>13, BlankTyped DEF Boot
  <2>2. QED
    BY <1>13, <2>1 DEF Boot, TypeOK
<1>14. CASE BootPublish
  BY <1>8, <1>14 DEF BootPublish, TypeOK
<1>15. CASE UNCHANGED vars
  BY <1>15 DEF vars, TypeOK
<1>16. QED
  BY <1>1, <1>2, <1>3, <1>4, <1>5, <1>6, <1>7, <1>9, <1>10, <1>11, <1>12, <1>13, <1>14,
     <1>15 DEF Next

----------------------------------------------------------------------------
(* The steps *)

\* A new request is the newest of all.
LEMMA SubmitKeeps == SInv /\ Submit => SInv'
<1> SUFFICES ASSUME SInv, Submit PROVE SInv'
  OBVIOUS
<1> USE DEF boxes, board, work, reader, history
<1>t. TypeOK /\ TypeOK' /\ Known \subseteq Request
  BY TypeStep, KnownTyped DEF SInv, Next
<1>1. PICK req : req.n = changes + 1 /\ inbox' = inbox \cup {req}
  <2>1. PICK k \in Keys, v \in Values \cup {Misfit}, p \in BOOLEAN :
          inbox' = inbox \cup {[n |-> changes + 1, key |-> k, val |-> v, persist |-> p]}
    BY DEF Submit
  <2>2. [n |-> changes + 1, key |-> k, val |-> v, persist |-> p].n = changes + 1
    OBVIOUS
  <2>3. QED
    BY <2>1, <2>2
<1>2. /\ changes' = changes + 1 /\ changes \in Nat /\ drained' = drained /\ listed' = listed
      /\ parked' = parked /\ done' = done /\ batch' = batch /\ applied' = applied
      /\ durable' = durable
  BY <1>t, ParamsAssumption DEF Submit, TypeOK
<1>3. Known' = Known \cup {req}
  BY <1>1, <1>2 DEF Known
<1>4. \A r \in Known : r.n \in Nat /\ r.n <= changes
  BY <1>t, ParamsAssumption DEF SInv, Numbered, Request
<1>5. \A r \in Known : r.n < req.n
  BY <1>1, <1>2, <1>4
<1>6. req \notin Known
  BY <1>1, <1>2, <1>4
<1>7. Numbered'
  <2>1. ASSUME NEW r \in Known' PROVE r.n <= changes'
    BY <1>1, <1>2, <1>3, <1>4
  <2>2. ASSUME NEW r \in Known', NEW q \in Known', r.n = q.n PROVE r = q
    BY <1>1, <1>2, <1>3, <1>4, <2>2 DEF SInv, Numbered
  <2>3. QED
    BY <2>1, <2>2 DEF Numbered
<1>8. Apart' /\ Nested'
  BY <1>1, <1>2, <1>6 DEF SInv, Apart, Nested, Known
<1>9. InTurn'
  BY <1>1, <1>2, <1>5 DEF SInv, InTurn, Nested, Known
<1>10. Copies'
  <2>1. /\ params' = params /\ cell' = cell /\ file' = file /\ scratch' = scratch
    BY DEF Submit
  <2>2. ASSUME NEW vals \in {params, cell.vals, file} \cup scratch
        PROVE  Sound(vals, Known', done', changes')
    <3>1. vals \in Params
      BY <1>t DEF TypeOK
    <3>2. Sound(vals, Known, done, changes)
      BY DEF SInv, Copies
    <3>3. \A k \in Keys : vals[k].by \in Nat /\ vals[k].by <= changes
      BY <3>1, <3>2, ByTyped DEF Sound
    <3>4. QED
      BY <1>1, <1>2, <1>3, <3>2, <3>3 DEF Sound
  <2>3. QED
    BY <2>1, <2>2 DEF Copies
<1>11. Steps' /\ Covered' /\ Framed'
  BY DEF Submit, SInv, Steps, Covered, Framed
<1>12. QED
  BY <1>t, <1>7, <1>8, <1>9, <1>10, <1>11 DEF SInv

\* An edit is newer than any request.
LEMMA EditKeeps == SInv /\ EditFile => SInv'
<1> SUFFICES ASSUME SInv, EditFile PROVE SInv'
  OBVIOUS
<1> USE DEF boxes, board, work, reader, history
<1>t. TypeOK /\ TypeOK' /\ Known \subseteq Request
  BY TypeStep, KnownTyped DEF SInv, Next
<1>1. PICK k \in Keys, v \in Values :
        file' = [file EXCEPT ![k] = [val |-> v, by |-> changes + 1]]
  BY DEF EditFile
<1>2. /\ changes' = changes + 1 /\ changes \in Nat /\ drained' = drained /\ listed' = listed
      /\ inbox' = inbox /\ parked' = parked /\ done' = done /\ durable' = durable
      /\ params' = params /\ cell' = cell /\ scratch' = scratch
  BY <1>t, ParamsAssumption DEF EditFile, TypeOK
<1>3. Known' = Known
  BY <1>2 DEF Known
<1>4. \A r \in Known : r.n \in Nat /\ r.n <= changes
  BY <1>t, ParamsAssumption DEF SInv, Numbered, Request
<1>5. Numbered'
  BY <1>2, <1>3, <1>4 DEF SInv, Numbered
<1>6. \A j \in Keys : file'[j] = IF j = k THEN [val |-> v, by |-> changes + 1] ELSE file[j]
  BY <1>1, <1>t DEF TypeOK, Params
<1>7. Sound(file', Known', done', changes')
  <2>1. Sound(file, Known, done, changes) /\ file \in Params
    BY <1>t DEF SInv, Copies, TypeOK
  <2>2. \A j \in Keys : file[j].by \in Nat
    BY <2>1, ByTyped
  <2>3. QED
    BY <1>2, <1>3, <1>4, <1>6, <2>1, <2>2 DEF Sound
<1>8. Copies'
  <2>1. ASSUME NEW vals \in {params, cell.vals, file} \cup scratch
        PROVE  Sound(vals, Known', done', changes')
    BY <1>2, <1>3, CopiesKept
  <2>2. QED
    BY <1>2, <1>7, <2>1 DEF Copies
<1>9. Covers(file', durable)
  <2>1. ASSUME NEW r \in durable PROVE file'[r.key].by >= r.n
    <3>1. r \in Known /\ r.key \in Keys /\ file[r.key].by >= r.n
      BY <1>t DEF SInv, Covered, Covers, Nested, Known, TypeOK, Request
    <3>2. QED
      BY <1>2, <1>4, <1>6, <3>1
  <2>2. QED
    BY <2>1 DEF Covers
<1>10. Apart' /\ Nested' /\ InTurn' /\ Steps' /\ Framed'
  BY DEF EditFile, SInv, Apart, Nested, InTurn, Steps, Framed
<1>11. Covered'
  BY <1>9 DEF EditFile, SInv, Covered
<1>12. QED
  BY <1>t, <1>5, <1>8, <1>10, <1>11 DEF SInv

\* Neither a look of the reader nor a listing changes a request or a copy.
LEMMA PollKeeps == SInv /\ Poll => SInv'
<1> SUFFICES ASSUME SInv, Poll PROVE SInv'
  OBVIOUS
<1> USE DEF boxes, board, work, reader, history
<1>t. TypeOK /\ TypeOK'
  BY TypeStep DEF SInv, Next
<1>1. /\ Numbered' /\ Apart' /\ Nested' /\ InTurn' /\ Steps' /\ Copies' /\ Covered'
  BY DEF Poll, SInv, Numbered, Apart, Nested, InTurn, Steps, Copies, Covered, Known
<1>2. Framed'
  BY <1>t DEF Poll, SInv, Framed, TypeOK
<1>3. QED
  BY <1>t, <1>1, <1>2 DEF SInv

LEMMA TickKeeps == SInv /\ Tick => SInv'
<1> SUFFICES ASSUME SInv, Tick PROVE SInv'
  OBVIOUS
<1> USE DEF boxes, board, work, reader, history, At, Rest
<1>t. TypeOK'
  BY TypeStep DEF SInv, Next
<1>1. Numbered' /\ Apart' /\ Copies'
  BY Quiet DEF Tick
<1>2. Nested' /\ InTurn'
  BY DEF Tick, SInv, Nested, InTurn
<1>3. Steps' /\ Covered' /\ Framed'
  BY DEF Tick, SInv, Steps, Covered, Framed
<1>4. QED
  BY <1>t, <1>1, <1>2, <1>3 DEF SInv

\* The file that is read is the first of the inbox.
LEMMA ReadKeeps == SInv /\ ReadOne => SInv'
<1> SUFFICES ASSUME SInv, ReadOne PROVE SInv'
  OBVIOUS
<1> USE DEF boxes, board, work, reader, history, At, Rest
<1>t. TypeOK /\ TypeOK' /\ Known \subseteq Request
  BY TypeStep, KnownTyped DEF SInv, Next
<1>1. PICK r \in listed : /\ FirstOf(listed, r) /\ drained' = drained \cup {r}
                         /\ listed' = listed \ {r} /\ inbox' = inbox \ {r}
  BY DEF ReadOne, Unlinked
<1>2. /\ changes' = changes /\ parked' = parked /\ done' = done /\ batch' = batch
      /\ applied' = applied /\ durable' = durable /\ params' = params /\ cell' = cell
      /\ file' = file /\ scratch' = scratch
  BY DEF ReadOne
<1>3. r \in inbox /\ r \in Known
  BY <1>1 DEF SInv, Nested, Known
<1>4. Known' = Known
  BY <1>1, <1>2, <1>3 DEF Known
<1>5. Numbered' /\ Copies'
  BY <1>2, <1>4 DEF SInv, Numbered, Copies
<1>6. Apart' /\ Nested'
  BY <1>1, <1>2, <1>3 DEF SInv, Apart, Nested
<1>7. \A q \in inbox \ {r} : r.n < q.n
  <2>1. ASSUME NEW q \in inbox \ {r} PROVE r.n < q.n
    <3>1. CASE q \in listed
      <4>1. r.n <= q.n
        BY <1>1, <3>1 DEF FirstOf
      <4>2. q \in Known /\ q # r
        BY DEF Known
      <4>3. r.n # q.n
        BY <1>3, <4>2 DEF SInv, Numbered
      <4>4. r.n \in Nat /\ q.n \in Nat
        BY <1>t, <1>3, <4>2, ParamsAssumption DEF Request
      <4>5. QED
        BY <4>1, <4>3, <4>4
    <3>2. CASE q \notin listed
      BY <1>1, <3>2 DEF SInv, InTurn
    <3>3. QED
      BY <3>1, <3>2
  <2>2. QED
    BY <2>1
<1>8. InTurn'
  <2>1. \A p \in done' \cup drained', q \in inbox' : p.n < q.n
    BY <1>1, <1>2, <1>7 DEF SInv, InTurn
  <2>2. \A p \in done', q \in drained' : p.n < q.n
    BY <1>1, <1>2, <1>3 DEF SInv, InTurn
  <2>3. \A p \in listed', q \in inbox' \ listed' : p.n < q.n
    BY <1>1 DEF SInv, InTurn
  <2>4. QED
    BY <2>1, <2>2, <2>3 DEF InTurn
<1>9. Steps' /\ Covered' /\ Framed'
  BY DEF ReadOne, SInv, Steps, Covered, Framed
<1>10. QED
  BY <1>t, <1>5, <1>6, <1>8, <1>9 DEF SInv

LEMMA RejectKeeps == SInv /\ Reject => SInv'
<1> SUFFICES ASSUME SInv, Reject PROVE SInv'
  OBVIOUS
<1> USE DEF boxes, board, work, reader, history, At, Rest
<1>t. TypeOK'
  BY TypeStep DEF SInv, Next
<1>1. PICK r \in drained : parked' = parked \cup {r} /\ drained' = drained \ {r}
  BY DEF Reject
<1>2. /\ changes' = changes /\ inbox' = inbox /\ done' = done /\ params' = params
      /\ cell' = cell /\ file' = file /\ scratch' = scratch /\ listed' = listed
      /\ batch' = batch /\ applied' = applied /\ durable' = durable
  BY DEF Reject
<1>3. Known' = Known
  BY <1>1, <1>2 DEF Known
<1>4. Numbered' /\ Copies'
  BY <1>2, <1>3 DEF SInv, Numbered, Copies
<1>5. Apart' /\ Nested'
  BY <1>1, <1>2 DEF SInv, Apart, Nested
<1>6. InTurn'
  BY <1>1, <1>2 DEF SInv, InTurn
<1>7. Steps' /\ Covered' /\ Framed'
  BY DEF Reject, SInv, Steps, Covered, Framed
<1>8. QED
  BY <1>t, <1>4, <1>5, <1>6, <1>7 DEF SInv

\* A set in memory is newer than what was applied before.
LEMMA ApplyKeeps == SInv /\ Apply => SInv'
<1> SUFFICES ASSUME SInv, Apply PROVE SInv'
  OBVIOUS
<1> USE DEF boxes, board, work, reader, history, At, Rest
<1>t. TypeOK /\ TypeOK' /\ Known \subseteq Request
  BY TypeStep, KnownTyped DEF SInv, Next
<1>1. PICK r \in drained :
        /\ Valid(r) /\ drained' = drained \ {r} /\ FirstOf(drained, r)
        /\ params' = [params EXCEPT ![r.key] = [val |-> r.val, by |-> r.n]]
        /\ changed' = TRUE /\ persist' = PersistAfter(r)
        /\ batch' = IF r.persist THEN batch \cup {r} ELSE batch
        /\ applied' = applied \cup {r} /\ done' = done \cup {r}
  BY DEF Apply
<1>2. /\ changes' = changes /\ inbox' = inbox /\ parked' = parked /\ cell' = cell
      /\ file' = file /\ scratch' = scratch /\ listed' = listed /\ durable' = durable
      /\ listed = {} /\ pc = "read" /\ pc' = pc /\ status = "up" /\ status' = status
  BY DEF Apply
<1>3. Known' = Known /\ r \in Known
  BY <1>1, <1>2 DEF Known
<1>4. Numbered'
  BY <1>2, <1>3 DEF SInv, Numbered
<1>5. Apart' /\ Nested'
  BY <1>1, <1>2 DEF SInv, Apart, Nested
<1>n. \A q \in Known : q.n \in Nat /\ q.key \in Keys
  BY <1>t, ParamsAssumption DEF Request
<1>6. \A q \in drained \ {r} : r.n < q.n
  <2>1. ASSUME NEW q \in drained \ {r} PROVE r.n < q.n
    <3>1. r.n <= q.n
      BY <1>1 DEF FirstOf
    <3>2. q \in Known /\ r.n # q.n
      BY <1>3 DEF Known, SInv, Numbered
    <3>3. QED
      BY <1>3, <1>n, <3>1, <3>2
  <2>2. QED
    BY <2>1
<1>7. InTurn'
  <2>1. \A p \in done' \cup drained', q \in inbox' : p.n < q.n
    BY <1>1, <1>2 DEF SInv, InTurn
  <2>2. \A p \in done', q \in drained' : p.n < q.n
    BY <1>1, <1>2, <1>6 DEF SInv, InTurn
  <2>3. QED
    BY <1>2, <2>1, <2>2 DEF InTurn
<1>8. \A k \in Keys :
        params'[k] = IF k = r.key THEN [val |-> r.val, by |-> r.n] ELSE params[k]
  BY <1>1, <1>t DEF TypeOK, Params
<1>9. Copies'
  <2>1. ASSUME NEW vals \in {params, cell.vals, file} \cup scratch
        PROVE  Sound(vals, Known', done', changes')
    <3>1. changes' \in Nat /\ changes <= changes'
      BY <1>2, <1>t, ParamsAssumption DEF TypeOK
    <3>2. Known' \subseteq Known /\ done \subseteq done'
      BY <1>1, <1>3
    <3>3. QED
      BY <3>1, <3>2, CopiesKept
  <2>2. Sound(params', Known', done', changes')
    <3>1. r.n <= changes /\ r.val \in InRange[r.key]
      BY <1>1, <1>3 DEF SInv, Numbered, Valid
    <3>2. Sound(params, Known', done', changes')
      BY <2>1
    <3>3. \A q \in Known : q.n = r.n => q \in done'
      BY <1>1, <1>3 DEF SInv, Numbered
    <3>4. QED
      BY <1>2, <1>3, <1>8, <3>1, <3>2, <3>3 DEF Sound
  <2>3. QED
    BY <1>2, <2>1, <2>2 DEF Copies
<1>10. Covers(params', applied' \cup durable')
  <2>1. ASSUME NEW q \in applied' \cup durable' PROVE params'[q.key].by >= q.n
    <3>1. q \in done \/ q = r
      BY <1>1, <1>2 DEF SInv, Nested
    <3>2. CASE q = r
      BY <1>3, <1>8, <1>n, <3>2
    <3>3. CASE q \in done /\ q # r
      <4>1. q.n < r.n /\ q \in Known
        BY <3>3 DEF SInv, InTurn, Known
      <4>2. params[q.key].by >= q.n
        BY <1>1, <1>2, <3>3 DEF SInv, Covered, Covers
      <4>3. QED
        BY <1>3, <1>8, <1>n, <4>1, <4>2
    <3>4. QED
      BY <3>1, <3>2, <3>3
  <2>2. QED
    BY <2>1 DEF Covers
<1>11. Covered'
  BY <1>1, <1>2, <1>10 DEF SInv, Covered
<1>12. Steps'
  BY <1>1, <1>2 DEF SInv, Steps, PersistAfter
<1>13. Framed'
  BY DEF Apply, SInv, Framed
<1>14. QED
  BY <1>t, <1>4, <1>5, <1>7, <1>9, <1>11, <1>12, <1>13 DEF SInv

\* A publish gives the board the params of memory and a new frame_id, or fails
\* and says so.
LEMMA Published ==
  ASSUME SInv, PublishParams
  PROVE  /\ frame' = frame + 1 /\ frame \in Nat
         /\ \/ cell'.vals = params /\ cell'.fid = frame'
            \/ cell' = cell /\ fails' # 0
<1>1. TypeOK
  BY DEF SInv
<1>2. frame' = frame + 1 /\ frame \in Nat
  BY <1>1 DEF PublishParams, NextFrame, TypeOK
<1>3. CASE cell' = [fid |-> frame + 1, vals |-> params]
  BY <1>2, <1>3
<1>4. CASE fails' = fails + 1 /\ cell' = cell
  BY <1>1, <1>2, <1>4, ParamsAssumption DEF TypeOK
<1>5. QED
  BY <1>3, <1>4 DEF PublishParams, NextFrame, Content

LEMMA PublishFramed ==
  ASSUME SInv, TypeOK', PublishParams, UNCHANGED reader PROVE Framed'
<1>1. /\ frame' = frame + 1 /\ frame \in Nat
      /\ cell'.fid = frame' \/ cell' = cell
  BY Published
<1>2. last' = last /\ fresh' = fresh /\ shown' = shown /\ last \in Nat \cup {-1}
      /\ cell.fid \in Nat
  BY DEF reader, SInv, TypeOK
<1>3. cell.fid <= frame /\ (fresh => last <= cell.fid)
      /\ (fresh /\ last = cell.fid => shown = cell.vals)
  BY DEF SInv, Framed
<1>4. CASE cell'.fid = frame'
  <2>1. cell.fid < cell'.fid
    BY <1>1, <1>2, <1>3, <1>4
  <2>2. fresh' => last' <= cell.fid
    BY <1>2, <1>3
  <2>3. fresh' => last' < cell'.fid
    BY <1>1, <1>2, <1>4, <2>1, <2>2
  <2>4. QED
    BY <1>1, <1>2, <1>4, <2>3 DEF Framed
<1>5. CASE cell' = cell
  BY <1>1, <1>2, <1>3, <1>5 DEF Framed
<1>6. QED
  BY <1>1, <1>4, <1>5

LEMMA PublishKeeps == SInv /\ Publish => SInv'
<1> SUFFICES ASSUME SInv, Publish PROVE SInv'
  OBVIOUS
<1> USE DEF boxes, board, work, reader, history, At, Rest
<1>t. TypeOK'
  BY TypeStep DEF SInv, Next
<1>1. /\ changes' = changes /\ inbox' = inbox /\ parked' = parked /\ params' = params
      /\ drained' = drained /\ done' = done /\ file' = file /\ scratch' = scratch
      /\ listed' = listed /\ batch' = batch /\ applied' = applied /\ status' = status
      /\ persist' = persist /\ changed' = changed
      /\ pc = "read" /\ status = "up" /\ listed = {} /\ drained = {}
      /\ pc' = IF persist THEN "save" ELSE "wait"
  BY DEF Publish
<1>2. cell'.vals = params \/ (cell' = cell /\ (fails' # 0 \/ (~changed /\ fails' = fails)))
  <2>1. CASE PublishParams
    <3>1. cell'.vals = params \/ (cell' = cell /\ fails' # 0)
      BY <2>1, Published
    <3>2. QED
      BY <3>1
  <2>2. CASE ~changed /\ UNCHANGED <<cell, fails>>
    BY <2>2
  <2>3. QED
    BY <2>1, <2>2 DEF Publish
<1>3. Numbered' /\ Apart' /\ Copies'
  BY <1>1, <1>2, Quiet
<1>4. durable' = durable
  BY <1>1 DEF Publish, SInv, Steps
<1>5. Nested' /\ InTurn' /\ Steps'
  BY <1>1, <1>4 DEF SInv, Nested, InTurn, Steps
<1>6. fails' # 0 \/ Covers(cell'.vals, applied)
  BY <1>1, <1>2 DEF SInv, Covered, Covers
<1>7. Covered'
  BY <1>1, <1>4, <1>6 DEF SInv, Covered
<1>8. CASE changed
  BY <1>8, <1>t, <1>3, <1>5, <1>7, PublishFramed DEF Publish, SInv
<1>9. CASE ~changed
  <2>1. Framed'
    BY <1>9 DEF Publish, SInv, Framed
  <2>2. QED
    BY <2>1, <1>t, <1>3, <1>5, <1>7 DEF SInv
<1>10. QED
  BY <1>8, <1>9

\* The save: a scratch copy of memory, renamed over the file.
LEMMA ScratchKeeps == SInv /\ SaveScratch => SInv'
<1> SUFFICES ASSUME SInv, SaveScratch PROVE SInv'
  OBVIOUS
<1> USE DEF boxes, board, work, reader, history, At, Rest
<1>t. TypeOK'
  BY TypeStep DEF SInv, Next
<1>1. Numbered' /\ Apart' /\ Copies'
  BY Quiet DEF SaveScratch
<1>2. Nested' /\ InTurn' /\ Steps'
  BY DEF SaveScratch, SInv, Nested, InTurn, Steps
<1>3. Covered' /\ Framed'
  BY DEF SaveScratch, SInv, Covered, Framed
<1>4. QED
  BY <1>t, <1>1, <1>2, <1>3 DEF SInv

LEMMA ReplaceKeeps == SInv /\ SaveReplace => SInv'
<1> SUFFICES ASSUME SInv, SaveReplace PROVE SInv'
  OBVIOUS
<1> USE DEF boxes, board, work, reader, history, At, Rest
<1>t. TypeOK'
  BY TypeStep DEF SInv, Next
<1>0. /\ changes' = changes /\ inbox' = inbox /\ parked' = parked /\ params' = params
      /\ drained' = drained /\ done' = done /\ listed' = listed /\ batch' = batch
      /\ applied' = applied /\ status' = status /\ persist' = persist /\ cell' = cell
      /\ pc = "replace" /\ pc' = "wait" /\ durable' = durable \cup batch
      /\ file' \in scratch /\ scratch' = {} /\ status = "up"
  BY DEF SaveReplace
<1>1. file' = params
  BY <1>0 DEF SInv, Steps
<1>2. Numbered' /\ Apart' /\ Copies'
  BY <1>0, <1>1, Quiet
<1>3. Nested' /\ InTurn' /\ Steps'
  BY <1>0 DEF SInv, Nested, InTurn, Steps
<1>4. applied \cup durable' = applied \cup durable
  BY <1>0 DEF SInv, Nested
<1>5. /\ Covers(params, applied \cup durable) /\ fails' = fails
      /\ fails # 0 \/ Covers(cell.vals, applied)
  BY <1>0 DEF SaveReplace, SInv, Covered
<1>6. Covers(file', durable')
  BY <1>1, <1>4, <1>5 DEF Covers
<1>7. Covered'
  BY <1>0, <1>4, <1>5, <1>6 DEF Covered
<1>8. Framed'
  BY DEF SaveReplace, SInv, Framed
<1>9. QED
  BY <1>t, <1>2, <1>3, <1>7, <1>8 DEF SInv

\* A death loses the requests in hand; what is durable is on the disk.
LEMMA KillKeeps == SInv /\ (Kill \/ PublishRaises) => SInv'
<1> SUFFICES ASSUME SInv, Kill \/ PublishRaises PROVE SInv'
  OBVIOUS
<1> USE DEF boxes, board, work, reader, history, At, Rest
<1>t. TypeOK' /\ TypeOK
  BY TypeStep DEF SInv, Next
<1>0. /\ changes' = changes /\ inbox' = inbox /\ parked' = parked /\ params' = params
      /\ drained' = {} /\ done' = done /\ listed' = {} /\ batch' = {} /\ durable' = durable
      /\ applied' = {} /\ status' = "down" /\ persist' = FALSE /\ cell' = cell
      /\ pc' = "wait" /\ file' = file /\ scratch' = scratch
  BY DEF Kill, PublishRaises, Died
<1>1. Known' \subseteq Known
  BY <1>0 DEF Known
<1>2. Numbered' /\ Apart'
  BY <1>0, <1>1 DEF SInv, Numbered, Apart
<1>3. Copies'
  <2>1. ASSUME NEW vals \in {params, cell.vals, file} \cup scratch
        PROVE  Sound(vals, Known', done', changes')
    <3>1. changes' \in Nat /\ changes <= changes' /\ done \subseteq done'
      BY <1>0, <1>t, ParamsAssumption DEF TypeOK
    <3>2. QED
      BY <1>1, <3>1, CopiesKept
  <2>2. QED
    BY <1>0, <2>1 DEF Copies
<1>4. Nested' /\ InTurn' /\ Steps'
  BY <1>0 DEF SInv, Nested, InTurn, Steps
<1>5. Covered'
  BY <1>0 DEF SInv, Covered, Covers
<1>6. Framed'
  BY DEF Kill, PublishRaises, Died, SInv, Framed
<1>7. QED
  BY <1>t, <1>2, <1>3, <1>4, <1>5, <1>6 DEF SInv

\* The boot takes the file's params, and the writer blanks the cell.
LEMMA BootKeeps == SInv /\ Boot => SInv'
<1> SUFFICES ASSUME SInv, Boot PROVE SInv'
  OBVIOUS
<1> USE DEF boxes, board, work, reader, history
<1>t. TypeOK' /\ TypeOK
  BY TypeStep DEF SInv, Next
<1>0. /\ changes' = changes /\ inbox' = inbox /\ parked' = parked /\ params' = file
      /\ drained' = drained /\ done' = done /\ listed' = listed /\ batch' = batch
      /\ durable' = durable /\ applied' = applied /\ persist' = persist
      /\ cell' = [fid |-> 0, vals |-> Blank] /\ frame' = 0 /\ fresh' = FALSE
      /\ pc' = "boot" /\ file' = file /\ scratch' = scratch /\ status' = "up"
      /\ status = "down"
  BY DEF Boot
<1>b. cell'.vals = Blank /\ cell'.fid = 0
  BY <1>0
<1>1. Known' = Known
  BY <1>0 DEF Known
<1>2. Numbered' /\ Apart'
  BY <1>0, <1>1 DEF SInv, Numbered, Apart
<1>3. Copies'
  <2>1. ASSUME NEW vals \in {params, cell.vals, file} \cup scratch
        PROVE  Sound(vals, Known', done', changes')
    BY <1>0, <1>1 DEF SInv, Copies
  <2>2. Sound(Blank, Known', done', changes')
    BY <1>0, <1>1, <1>t, BlankSound, KnownTyped
  <2>3. QED
    BY <1>0, <1>b, <2>1, <2>2 DEF Copies
<1>4. Nested' /\ InTurn'
  BY <1>0 DEF SInv, Nested, InTurn
<1>5. applied = {} /\ pc = "wait"
  BY <1>0 DEF SInv, Steps
<1>6. Steps'
  BY <1>0, <1>5 DEF SInv, Steps
<1>7. Covered'
  BY <1>0, <1>5 DEF SInv, Covered, Covers
<1>8. Framed'
  BY <1>0, <1>b DEF Framed
<1>9. QED
  BY <1>t, <1>2, <1>3, <1>4, <1>6, <1>7, <1>8 DEF SInv

LEMMA BootPublishKeeps == SInv /\ BootPublish => SInv'
<1> SUFFICES ASSUME SInv, BootPublish PROVE SInv'
  OBVIOUS
<1> USE DEF boxes, board, work, reader, history, At, Rest
<1>t. TypeOK'
  BY TypeStep DEF SInv, Next
<1>0. /\ changes' = changes /\ inbox' = inbox /\ parked' = parked /\ params' = params
      /\ drained' = drained /\ done' = done /\ listed' = listed /\ batch' = batch
      /\ durable' = durable /\ applied' = applied /\ persist' = persist
      /\ pc = "boot" /\ pc' = "wait" /\ file' = file /\ scratch' = scratch
      /\ status = "up" /\ status' = status
  BY DEF BootPublish
<1>1. cell'.vals = params \/ cell' = cell
  BY Published DEF BootPublish
<1>2. Numbered' /\ Apart' /\ Copies'
  BY <1>0, <1>1, Quiet
<1>3. applied = {} /\ listed = {} /\ drained = {}
  BY <1>0 DEF SInv, Steps
<1>4. Nested' /\ InTurn' /\ Steps'
  BY <1>0, <1>3 DEF SInv, Nested, InTurn, Steps
<1>5. Covered'
  BY <1>0, <1>3 DEF SInv, Covered, Covers
<1>6. Framed'
  BY <1>t, PublishFramed DEF BootPublish
<1>7. QED
  BY <1>t, <1>2, <1>4, <1>5, <1>6 DEF SInv

LEMMA InvStep == SInv /\ [Next]_vars => SInv'
<1>1. SInv /\ UNCHANGED vars => SInv'
  <2> SUFFICES ASSUME SInv, UNCHANGED vars PROVE SInv'
    OBVIOUS
  <2> USE DEF vars, boxes, board, work, reader, history
  <2>1. TypeOK'
    BY TypeStep DEF SInv
  <2>2. Numbered' /\ Apart' /\ Copies'
    BY Quiet
  <2>3. Nested' /\ InTurn' /\ Steps'
    BY DEF SInv, Nested, InTurn, Steps
  <2>4. Covered' /\ Framed'
    BY DEF SInv, Covered, Framed
  <2>5. QED
    BY <2>1, <2>2, <2>3, <2>4 DEF SInv
<1>2. QED
  BY <1>1, SubmitKeeps, EditKeeps, PollKeeps, TickKeeps, ReadKeeps, RejectKeeps,
     ApplyKeeps, PublishKeeps, ScratchKeeps, ReplaceKeeps, KillKeeps, BootKeeps,
     BootPublishKeeps
     DEF Next

LEMMA Invariant == Spec => []SInv
BY InvInit, InvStep, PTL DEF Spec

----------------------------------------------------------------------------
(* Results *)

\* Every variable of the parameter server keeps its type (the state of
\* setup(), on_tick() and the inbox).
THEOREM ServerTyped == Spec => []TypeOK
BY Invariant, PTL DEF SInv

\* No request is applied twice, or applied after a quarantine, whenever the
\* server dies (Inbox.drain() and _apply()).
THEOREM RequestsAppliedOnce == Spec => []AppliedOnce
<1>1. SInv => AppliedOnce
  BY DEF SInv, Apart, AppliedOnce
<1>2. QED
  BY <1>1, Invariant, PTL

\* What a request put in memory, on the board or on disk is within its
\* param's range (_apply()'s check, through _save() and _load()).
THEOREM RangesKept == Spec => []RangeKept
<1>1. SInv => RangeKept
  BY DEF SInv, Copies, Sound, Known, RangeKept
<1>2. QED
  BY <1>1, Invariant, PTL

\* Between ticks the board shows the newest set of this life, unless the last
\* write of the board failed (on_tick()'s one publish per batch).
THEOREM NewestSetOnBoard == Spec => []LastSetWins
<1>1. SInv => LastSetWins
  BY DEF SInv, Covered, Covers, LastSetWins, At
<1>2. QED
  BY <1>1, Invariant, PTL

\* After the tick of a persisted set no crash and no save brings an older
\* value of its param back (_save()'s rename).
THEOREM PersistedStays == Spec => []PersistedSurvives
<1>1. SInv => PersistedSurvives
  BY DEF SInv, Covered, Covers, PersistedSurvives
<1>2. QED
  BY <1>1, Invariant, PTL

\* In one life of the server a frame_id stands for one content (_publish()).
THEOREM FrameIdentifies == Spec => []FrameNamesContent
<1>1. SInv => FrameNamesContent
  BY DEF SInv, Framed, FrameNamesContent
<1>2. QED
  BY <1>1, Invariant, PTL
=============================================================================
