------------------------ MODULE JobReservationProofs ------------------------
(***************************************************************************)
(* A reserved id is used once, for what it was reserved for, however many  *)
(* posts, ids and restarts there are.  The invariant says where an id is:  *)
(* in its row, or with the one post that took it, or with that post's job. *)
(***************************************************************************)
EXTENDS JobReservation, TLAPS

\* The post got past the reservation of id i.
Past(p, i) == stage[p] \in {"took", "done"} /\ grant[p].id = i

\* A row still there is what was asked for, and nobody has used it.
RowInv ==
    \A i \in Ids : rows[i] # NoRow =>
        /\ rows[i] = asked[i]
        /\ \A p \in Posts : ~ Past(p, i)
        /\ \A j \in jobs : j.id # i

PostInv ==
    \A p \in Posts : stage[p] \in {"took", "done", "dead"} =>
        /\ grant[p] \in Grants
        /\ stage[p] # "dead" => asked[grant[p].id] = grant[p].for

\* Every job was made by a post that is done, from that post's grant.
JobInv ==
    \A j \in jobs : /\ stage[j.by] = "done" /\ grant[j.by].id = j.id /\ grant[j.by].for = j.for
                    /\ asked[j.id] = j.for

\* An id nobody asked for has left no trace.
FreshInv ==
    \A i \in Ids : asked[i] = NoRow =>
        /\ rows[i] = NoRow
        /\ \A j \in jobs : j.id # i

ReservationInv == TypeOK /\ RowInv /\ PostInv /\ JobInv /\ FreshInv /\ TakenByOnePost

LEMMA ReservationInductive == Spec => []ReservationInv
<1> USE ReservationAssumption
<1>1. Init => ReservationInv
    BY DEF Init, ReservationInv, TypeOK, RowInv, PostInv, JobInv, FreshInv, TakenByOnePost
<1>2. ASSUME ReservationInv, NEW i \in Ids, NEW t \in Targets, ReserveJob(i, t)
      PROVE  ReservationInv'
    <2> USE <1>2 DEF ReservationInv
    <2>1. /\ asked[i] = NoRow /\ asked' = [asked EXCEPT ![i] = t]
          /\ rows' = [k \in Ids |-> IF k = i THEN t ELSE IF k \in lapsed THEN NoRow ELSE rows[k]]
          /\ burnt' = burnt \cup {k \in lapsed : rows[k] # NoRow}
          /\ UNCHANGED <<lapsed, stage, grant, jobs>>
        BY DEF ReserveJob
    <2>2. \A p \in Posts : ~ Past(p, i)
        BY <2>1 DEF Past, PostInv, Grants
    <2>3. TypeOK'
        BY <2>1 DEF TypeOK
    <2>4. RowInv'
        BY <2>1, <2>2 DEF RowInv, FreshInv, Past, TypeOK
    <2>5. PostInv'
        BY <2>1, <2>2 DEF PostInv, Past, TypeOK
    <2>6. JobInv'
        BY <2>1 DEF JobInv, FreshInv, TypeOK
    <2>7. FreshInv' /\ TakenByOnePost'
        BY <2>1 DEF FreshInv, TakenByOnePost, TypeOK
    <2> QED BY <2>3, <2>4, <2>5, <2>6, <2>7
<1>3. ASSUME ReservationInv, NEW p \in Posts, NEW i \in Ids, NEW t \in Targets, TakeReservation(p, i, t)
      PROVE  ReservationInv'
    <2> USE <1>3 DEF ReservationInv
    <2> DEFINE ok == rows[i] # NoRow /\ i \notin lapsed /\ Matches(i, t)
               g == [id |-> i, for |-> t]
    <2>1. /\ stage[p] = "unsent"
          /\ stage' = [stage EXCEPT ![p] = IF ok THEN "took" ELSE "refused"]
          /\ grant' = [grant EXCEPT ![p] = g]
          /\ rows' = [rows EXCEPT ![i] = NoRow]
          /\ burnt' = IF rows[i] # NoRow /\ ~ ok THEN burnt \cup {i} ELSE burnt
          /\ UNCHANGED <<asked, lapsed, jobs>>
        BY DEF TakeReservation
    <2>2. g \in Grants /\ g.id = i /\ g.for = t
        BY DEF Grants
    <2>3. ok => asked[i] = t /\ \A q \in Posts : ~ Past(q, i)
        BY DEF RowInv, Matches
    <2> HIDE DEF ok, g
    <2>4. \A q \in Posts : q # p => stage'[q] = stage[q] /\ grant'[q] = grant[q]
        BY <2>1 DEF TypeOK
    <2>5. stage'[p] = (IF ok THEN "took" ELSE "refused") /\ grant'[p] = g
        BY <2>1 DEF TypeOK
    <2>6. TypeOK'
        BY <2>1, <2>2 DEF TypeOK
    <2>7. RowInv'
        <3> SUFFICES ASSUME NEW k \in Ids, rows'[k] # NoRow
                     PROVE  /\ rows'[k] = asked[k]
                            /\ \A q \in Posts : ~ Past(q, k)'
                            /\ \A j \in jobs : j.id # k
            BY <2>1 DEF RowInv
        <3>1. k # i /\ rows'[k] = rows[k]
            BY <2>1 DEF TypeOK
        <3>2. \A q \in Posts : ~ Past(q, k)'
            BY <2>2, <2>4, <2>5, <3>1 DEF RowInv, Past
        <3> QED BY <3>1, <3>2 DEF RowInv
    <2>8. PostInv'
        BY <2>1, <2>2, <2>3, <2>4, <2>5 DEF PostInv
    <2>9. JobInv'
        BY <2>1, <2>4 DEF JobInv, TypeOK
    <2>10. FreshInv'
        BY <2>1 DEF FreshInv, TypeOK
    <2>11. TakenByOnePost'
        BY <2>2, <2>3, <2>4, <2>5 DEF TakenByOnePost, Past
    <2> QED BY <2>6, <2>7, <2>8, <2>9, <2>10, <2>11
<1>4. ASSUME ReservationInv, NEW p \in Posts, CreateJob(p)
      PROVE  ReservationInv'
    <2> USE <1>4 DEF ReservationInv
    <2> DEFINE job == [id |-> grant[p].id, for |-> grant[p].for, by |-> p]
    <2>1. /\ stage[p] = "took" /\ stage' = [stage EXCEPT ![p] = "done"]
          /\ jobs' = jobs \/ jobs' = jobs \cup {job}
          /\ UNCHANGED <<rows, asked, lapsed, grant, burnt>>
        BY DEF CreateJob
    <2>2. grant[p] \in Grants /\ asked[grant[p].id] = grant[p].for
        BY <2>1 DEF PostInv
    <2>3. /\ job \in [id : Ids, for : Targets, by : Posts]
          /\ job.id = grant[p].id /\ job.for = grant[p].for /\ job.by = p
        BY <2>2 DEF Grants
    <2>4. stage'[p] = "done" /\ \A q \in Posts : q # p => stage'[q] = stage[q]
        BY <2>1 DEF TypeOK
    <2>5. \A q \in Posts, i \in Ids : Past(q, i)' <=> Past(q, i)
        BY <2>1, <2>4 DEF Past
    <2> HIDE DEF job
    <2>6. TypeOK'
        BY <2>1, <2>3 DEF TypeOK
    <2>7. RowInv'
        BY <2>1, <2>3, <2>5 DEF RowInv, Past
    <2>8. PostInv'
        BY <2>1, <2>4 DEF PostInv
    <2>9. JobInv'
        BY <2>1, <2>2, <2>3, <2>4 DEF JobInv, TypeOK
    <2>10. FreshInv'
        <3>1. job.id \in Ids /\ asked[job.id] # NoRow
            BY <2>2, <2>3 DEF Grants
        <3> QED BY <2>1, <3>1 DEF FreshInv
    <2>11. TakenByOnePost'
        BY <2>1, <2>4 DEF TakenByOnePost
    <2> QED BY <2>6, <2>7, <2>8, <2>9, <2>10, <2>11
<1>5. ASSUME ReservationInv, NEW i \in Ids, Lapse(i) PROVE ReservationInv'
    BY <1>5 DEF Lapse, ReservationInv, TypeOK, RowInv, PostInv, JobInv, FreshInv, TakenByOnePost, Past
<1>6. ASSUME ReservationInv, HubRestart PROVE ReservationInv'
    <2> USE <1>6 DEF ReservationInv
    <2>1. /\ stage' = [p \in Posts |-> IF stage[p] = "took" THEN "dead" ELSE stage[p]]
          /\ burnt' = burnt \cup {grant[p].id : p \in {q \in Posts : stage[q] = "took"}}
          /\ UNCHANGED <<rows, asked, lapsed, grant, jobs>>
        BY DEF HubRestart
    <2>2. \A p \in Posts : stage[p] = "took" => grant[p].id \in Ids
        BY DEF PostInv, Grants
    <2>3. burnt' \subseteq Ids
        BY <2>1, <2>2 DEF TypeOK
    <2>4. TypeOK'
        BY <2>1, <2>3 DEF TypeOK
    <2>5. RowInv' /\ PostInv' /\ JobInv' /\ FreshInv' /\ TakenByOnePost'
        BY <2>1 DEF RowInv, PostInv, JobInv, FreshInv, TakenByOnePost, Past, TypeOK
    <2> QED BY <2>4, <2>5
<1>7. ASSUME ReservationInv, UNCHANGED vars PROVE ReservationInv'
    BY <1>7 DEF vars, ReservationInv, TypeOK, RowInv, PostInv, JobInv, FreshInv, TakenByOnePost, Past
<1>8. ReservationInv /\ [Next]_vars => ReservationInv'
    BY <1>2, <1>3, <1>4, <1>5, <1>6, <1>7 DEF Next
<1> QED BY <1>1, <1>8, PTL DEF Spec

\* At most one post gets past the reservation of an id.
THEOREM OneGrantPerReservation == Spec => []TakenByOnePost
<1>1. ReservationInv => TakenByOnePost
    BY DEF ReservationInv
<1> QED BY <1>1, ReservationInductive, PTL

\* The job under a reserved id is the one the id was reserved for, and the only one.
THEOREM ReservedJobIsRight == Spec => []JobIsTheReservedOne
<1>1. ASSUME ReservationInv PROVE JobIsTheReservedOne
    <2>1. ASSUME NEW j \in jobs, NEW k \in jobs, k.id = j.id PROVE k = j
        <3>1. j \in [id : Ids, for : Targets, by : Posts] /\ k \in [id : Ids, for : Targets, by : Posts]
            BY <1>1 DEF ReservationInv, TypeOK
        <3>2. k.by = j.by
            BY <1>1, <2>1, <3>1 DEF ReservationInv, JobInv, TakenByOnePost
        <3> QED BY <1>1, <2>1, <3>1, <3>2 DEF ReservationInv, JobInv
    <2> QED BY <1>1, <2>1 DEF ReservationInv, JobInv, JobIsTheReservedOne
<1> QED BY <1>1, ReservationInductive, PTL

\* Where a reserved id is: its row, the post being handled, its job, or used up.
Accounted(i) ==
    \/ rows[i] # NoRow
    \/ \E p \in Posts : stage[p] = "took" /\ grant[p].id = i
    \/ \E j \in jobs : j.id = i
    \/ i \in burnt

\* No reserved id just disappears, whatever posts, lapses and restarts come
\* between TakeReservation and CreateJob.
THEOREM ReservationsAccounted == Spec => []ReservationAccounted
<1> USE ReservationAssumption
<1>1. Init => ReservationAccounted
    BY DEF Init, ReservationAccounted
<1>2. ASSUME ReservationInv, ReservationAccounted, [Next]_vars
      PROVE  ReservationAccounted'
    <2> SUFFICES ASSUME NEW k \in Ids, asked'[k] # NoRow PROVE Accounted(k)'
        BY DEF ReservationAccounted, Accounted
    <2> USE <1>2 DEF ReservationInv
    <2>1. asked[k] # NoRow => Accounted(k)
        BY DEF ReservationAccounted, Accounted
    <2>2. ASSUME NEW i \in Ids, NEW t \in Targets, ReserveJob(i, t) PROVE Accounted(k)'
        <3>1. /\ asked' = [asked EXCEPT ![i] = t]
              /\ rows' = [n \in Ids |-> IF n = i THEN t ELSE IF n \in lapsed THEN NoRow ELSE rows[n]]
              /\ burnt' = burnt \cup {n \in lapsed : rows[n] # NoRow}
              /\ UNCHANGED <<stage, grant, jobs>>
            BY <2>2 DEF ReserveJob
        <3>2. CASE k = i
            BY <3>1, <3>2 DEF Accounted
        <3>3. CASE k # i
            <4>1. asked[k] # NoRow
                BY <3>1, <3>3 DEF TypeOK
            <4> QED BY <2>1, <3>1, <3>3, <4>1 DEF Accounted
        <3> QED BY <3>2, <3>3
    <2>3. ASSUME NEW p \in Posts, NEW i \in Ids, NEW t \in Targets, TakeReservation(p, i, t)
          PROVE  Accounted(k)'
        <3> DEFINE ok == rows[i] # NoRow /\ i \notin lapsed /\ Matches(i, t)
                   g == [id |-> i, for |-> t]
        <3>1. /\ stage[p] = "unsent" /\ UNCHANGED <<asked, jobs>>
              /\ stage' = [stage EXCEPT ![p] = IF ok THEN "took" ELSE "refused"]
              /\ grant' = [grant EXCEPT ![p] = g]
              /\ rows' = [rows EXCEPT ![i] = NoRow]
              /\ burnt' = IF rows[i] # NoRow /\ ~ ok THEN burnt \cup {i} ELSE burnt
            BY <2>3 DEF TakeReservation
        <3>2. g.id = i
            OBVIOUS
        <3> HIDE DEF ok, g
        <3>3. \A q \in Posts : q # p => stage'[q] = stage[q] /\ grant'[q] = grant[q]
            BY <3>1 DEF TypeOK
        <3>4. stage'[p] = (IF ok THEN "took" ELSE "refused") /\ grant'[p].id = i
            BY <3>1, <3>2 DEF TypeOK
        <3>5. Accounted(k)
            BY <2>1, <3>1
        <3>6. CASE rows[k] # NoRow /\ k = i
            BY <3>1, <3>4, <3>6 DEF Accounted
        <3>7. CASE rows[k] # NoRow /\ k # i
            BY <3>1, <3>7 DEF Accounted, TypeOK
        <3>8. CASE rows[k] = NoRow
            BY <3>1, <3>3, <3>5, <3>8 DEF Accounted
        <3> QED BY <3>6, <3>7, <3>8
    <2>4. ASSUME NEW p \in Posts, CreateJob(p) PROVE Accounted(k)'
        <3> DEFINE job == [id |-> grant[p].id, for |-> grant[p].for, by |-> p]
        <3>1. /\ stage' = [stage EXCEPT ![p] = "done"]
              /\ jobs' = IF \E j \in jobs : j.id = grant[p].id THEN jobs ELSE jobs \cup {job}
              /\ UNCHANGED <<rows, asked, grant, burnt>>
            BY <2>4 DEF CreateJob
        <3>2. job.id = grant[p].id
            OBVIOUS
        <3> HIDE DEF job
        <3>3. \E j \in jobs' : j.id = grant[p].id
            BY <3>1, <3>2
        <3>4. \A q \in Posts : q # p => stage'[q] = stage[q]
            BY <3>1 DEF TypeOK
        <3> QED BY <2>1, <3>1, <3>3, <3>4 DEF Accounted
    <2>5. ASSUME NEW i \in Ids, Lapse(i) PROVE Accounted(k)'
        BY <2>1, <2>5 DEF Lapse, Accounted
    <2>6. CASE HubRestart
        BY <2>1, <2>6 DEF HubRestart, Accounted
    <2>7. CASE UNCHANGED vars
        BY <2>1, <2>7 DEF vars, Accounted
    <2> QED BY <2>2, <2>3, <2>4, <2>5, <2>6, <2>7 DEF Next
<1> QED BY <1>1, <1>2, ReservationInductive, PTL DEF Spec
=============================================================================
