--------------------------- MODULE StartupProofs ---------------------------
(***************************************************************************)
(* Theorems about Startup, for every number of workers.                    *)
(***************************************************************************)
EXTENDS Startup, FiniteSetTheorems, TLAPS

Acks == Seq([outcome : Outcomes, worker : Workers])

LEMMA WorkersFinite ==
  /\ 0 \in Workers
  /\ IsFiniteSet(Workers)
  /\ Cardinality(Workers) = PoolSize
PROOF
  BY StartupAssumption, FS_Interval DEF Workers

LEMMA SeqElement ==
  ASSUME NEW S, NEW s \in Seq(S), NEW n \in DOMAIN s
  PROVE  s[n] \in S
PROOF
  OBVIOUS

LEMMA AckType ==
  ASSUME acks \in Acks, NEW n \in DOMAIN acks
  PROVE  acks[n] \in [outcome : Outcomes, worker : Workers]
PROOF
  BY SeqElement DEF Acks

(* How a report enters and leaves the set of unread successes.             *)
LEMMA UnreadAppend ==
  ASSUME acks \in Acks, NEW w \in Workers, NEW o \in Outcomes,
         acks' = Append(acks, Report(o, w))
  PROVE  Unread' = Unread \cup (IF o = "Ok" THEN {w} ELSE {})
PROOF
  <1>1. /\ DOMAIN acks' = DOMAIN acks \cup {Len(acks) + 1}
        /\ \A n \in DOMAIN acks : acks'[n] = acks[n]
        /\ acks'[Len(acks) + 1] = Report(o, w)
    BY DEF Acks
  <1>2. ASSUME NEW v \in Workers
        PROVE  (\E n \in DOMAIN acks' : acks'[n] = Report("Ok", v))
                 <=> (\E n \in DOMAIN acks : acks[n] = Report("Ok", v))
                       \/ (o = "Ok" /\ v = w)
    BY <1>1 DEF Report
  <1> QED
    BY <1>2 DEF Unread, Report

LEMMA UnreadTail ==
  ASSUME acks \in Acks, acks # <<>>, acks' = Tail(acks),
         \A n, k \in DOMAIN acks : acks[n].worker = acks[k].worker => n = k,
         Head(acks).outcome = "Ok"
  PROVE  /\ Unread' = Unread \ {Head(acks).worker}
         /\ Head(acks).worker \in Unread
PROOF
  <1>1. /\ DOMAIN acks = 1 .. Len(acks) /\ Len(acks) \in Nat \ {0}
        /\ DOMAIN acks' = 1 .. Len(acks) - 1
        /\ \A n \in DOMAIN acks' : acks'[n] = acks[n + 1]
        /\ Head(acks) = acks[1] /\ 1 \in DOMAIN acks
    BY DEF Acks
  <1>2. acks[1] \in [outcome : Outcomes, worker : Workers]
    BY <1>1, AckType
  <1>3. acks[1] = Report("Ok", acks[1].worker)
    BY <1>1, <1>2 DEF Report
  <1>4. ASSUME NEW v \in Workers
        PROVE  (\E n \in DOMAIN acks' : acks'[n] = Report("Ok", v))
                 <=> (\E n \in DOMAIN acks : acks[n] = Report("Ok", v))
                       /\ v # acks[1].worker
    <2>1. ASSUME NEW n \in DOMAIN acks', acks'[n] = Report("Ok", v)
          PROVE  /\ \E k \in DOMAIN acks : acks[k] = Report("Ok", v)
                 /\ v # acks[1].worker
      <3>1. n + 1 \in DOMAIN acks /\ acks[n + 1] = Report("Ok", v) /\ n + 1 # 1
        BY <1>1, <2>1
      <3>2. acks[n + 1].worker = v
        BY <3>1 DEF Report
      <3> QED
        BY <1>1, <3>1, <3>2
    <2>2. ASSUME NEW n \in DOMAIN acks, acks[n] = Report("Ok", v), v # acks[1].worker
          PROVE  \E k \in DOMAIN acks' : acks'[k] = Report("Ok", v)
      <3>1. n # 1
        BY <2>2 DEF Report
      <3>2. n - 1 \in DOMAIN acks' /\ acks'[n - 1] = acks[n]
        BY <1>1, <3>1
      <3> QED
        BY <2>2, <3>2
    <2> QED
      BY <2>1, <2>2
  <1> QED
    BY <1>1, <1>2, <1>3, <1>4 DEF Unread

-----------------------------------------------------------------------------
(***************************************************************************)
(* AckInv.                                                                 *)
(***************************************************************************)

(* A worker moves, and reports nothing.                                    *)
LEMMA QuietStep ==
  ASSUME TypeOK, AckInv, UNCHANGED <<caller, result, acked, acks>>,
         NEW w \in Workers, th[w] \notin {"serving", "gone"},
         th'[w] # "serving",
         th'[w] = "gone" => failure'[w] = "none",
         \A v \in Workers \ {w} : /\ th'[v] = th[v]
                                  /\ failure'[v] = failure[v]
                                  /\ predictor'[v] = predictor[v]
  PROVE  AckInv'
PROOF
  <1> SUFFICES ASSUME caller = "waiting" PROVE AckInv'
    BY DEF AckInv
  <1>1. \A n \in DOMAIN acks : Truthful(acks[n])
    BY DEF AckInv
  <1>2. \A n \in DOMAIN acks : acks[n].worker \in Workers
    BY AckType DEF TypeOK, Acks
  <1>3. \A n \in DOMAIN acks : acks[n].worker # w
    BY <1>1 DEF Truthful
  <1>4. (\A n \in DOMAIN acks : Truthful(acks[n]))'
    BY <1>1, <1>2, <1>3 DEF Truthful
  <1>5. Serving' = Serving /\ Unread' = Unread
    BY DEF Serving, Unread
  <1> QED
    BY <1>4, <1>5 DEF AckInv

(* A worker reports, and stops or serves.                                  *)
LEMMA ReportStep ==
  ASSUME TypeOK, AckInv, caller = "waiting", UNCHANGED <<caller, result, acked>>,
         NEW w \in Workers, th[w] \notin {"serving", "gone"},
         NEW o \in Failures \cup {"Ok", "InternalError"},
         acks' = Append(acks, Report(o, w)),
         th'[w] = IF o = "Ok" THEN "serving" ELSE "gone",
         o = "InternalError" => failure'[w] = "none",
         o \in Failures => failure'[w] = o /\ predictor'[w] = "Dead",
         \A v \in Workers \ {w} : /\ th'[v] = th[v]
                                  /\ failure'[v] = failure[v]
                                  /\ predictor'[v] = predictor[v]
  PROVE  AckInv'
PROOF
  <1> DEFINE r == Report(o, w)
  <1>0. acks \in Acks /\ r.worker = w /\ r.outcome = o /\ o \in Outcomes
    BY DEF TypeOK, Acks, Report, Outcomes
  <1>1. /\ DOMAIN acks' = DOMAIN acks \cup {Len(acks) + 1}
        /\ \A n \in DOMAIN acks : acks'[n] = acks[n]
        /\ acks'[Len(acks) + 1] = r
        /\ Len(acks) + 1 \notin DOMAIN acks
    BY <1>0 DEF Acks
  <1>2. \A n \in DOMAIN acks : Truthful(acks[n])
    BY DEF AckInv
  <1>3. \A n \in DOMAIN acks : acks[n].worker \in Workers /\ acks[n].worker # w
    <2> TAKE n \in DOMAIN acks
    <2>1. acks[n] \in [outcome : Outcomes, worker : Workers]
      BY <1>0, AckType
    <2> QED
      BY <1>2, <2>1 DEF Truthful
  <1>4. (\A n \in DOMAIN acks : Truthful(acks[n]))'
    <2> SUFFICES ASSUME NEW n \in DOMAIN acks' PROVE Truthful(acks[n])'
      OBVIOUS
    <2>1. CASE n \in DOMAIN acks
      <3>1. acks'[n] = acks[n] /\ Truthful(acks[n])
            /\ acks[n].worker \in Workers \ {w}
        BY <1>1, <1>2, <1>3, <2>1
      <3> QED
        BY <3>1 DEF Truthful
    <2>2. CASE n = Len(acks) + 1
      BY <1>0, <1>1, <2>2 DEF Truthful, Failures
    <2> QED
      BY <1>1, <2>1, <2>2
  <1>6. \A n, k \in DOMAIN acks' : acks'[n].worker = acks'[k].worker => n = k
    BY <1>0, <1>1, <1>3 DEF AckInv
  <1>7. Serving' \ Unread' = Serving \ Unread
    <2>1. Unread' = Unread \cup (IF o = "Ok" THEN {w} ELSE {})
      BY <1>0, UnreadAppend
    <2>2. Serving' = Serving \cup (IF o = "Ok" THEN {w} ELSE {})
      <3>1. o = "Ok" <=> th'[w] = "serving"
        OBVIOUS
      <3> QED
        BY <3>1 DEF Serving
    <2>3. w \notin Serving
      BY DEF Serving
    <2> QED
      BY <2>1, <2>2, <2>3
  <1>8. \A v \in Workers : th'[v] = "gone" /\ failure'[v] # "none" =>
          \E n \in DOMAIN acks' : acks'[n].worker = v
    BY <1>0, <1>1 DEF AckInv
  <1> QED
    BY <1>4, <1>6, <1>7, <1>8 DEF AckInv

(* get_batcher reads a success.                                            *)
LEMMA ReadStep ==
  ASSUME TypeOK, AckInv, caller = "waiting", acks # <<>>,
         Head(acks).outcome = "Ok", acks' = Tail(acks), acked' = acked + 1,
         UNCHANGED <<th, failure, predictor>>
  PROVE  /\ acked' = Cardinality(Serving' \ Unread')
         /\ acked' \in 0 .. PoolSize
         /\ acked' = PoolSize => \A w \in Workers : th[w] = "serving"
         /\ (\A n \in DOMAIN acks : Truthful(acks[n]))'
         /\ \A n, k \in DOMAIN acks' : acks'[n].worker = acks'[k].worker => n = k
         /\ \A w \in Workers : th[w] = "gone" /\ failure[w] # "none" =>
              \E n \in DOMAIN acks' : acks'[n].worker = w
PROOF
  <1> DEFINE h == Head(acks).worker
  <1>1. /\ acks \in Acks
        /\ DOMAIN acks = 1 .. Len(acks) /\ Len(acks) \in Nat \ {0}
        /\ DOMAIN acks' = 1 .. Len(acks) - 1
        /\ \A n \in DOMAIN acks' : acks'[n] = acks[n + 1] /\ n + 1 \in DOMAIN acks
        /\ Head(acks) = acks[1] /\ 1 \in DOMAIN acks
    BY DEF TypeOK, Acks
  <1>2. Truthful(acks[1]) /\ h \in Workers /\ th[h] = "serving"
    <2>1. acks[1] \in [outcome : Outcomes, worker : Workers]
      BY <1>1, AckType
    <2>2. Truthful(acks[1])
      BY <1>1 DEF AckInv
    <2> QED
      BY <1>1, <2>1, <2>2 DEF Truthful
  <1>3. Unread' = Unread \ {h} /\ h \in Unread /\ Serving' = Serving
    BY <1>1, UnreadTail DEF AckInv, Serving
  <1>4. /\ Serving' \ Unread' = (Serving \ Unread) \cup {h}
        /\ h \notin Serving \ Unread
    BY <1>2, <1>3 DEF Serving
  <1>5. IsFiniteSet(Serving \ Unread)
    BY WorkersFinite, FS_Subset DEF Serving
  <1>6. acked' = Cardinality(Serving' \ Unread')
    <2>1. Cardinality((Serving \ Unread) \cup {h}) = Cardinality(Serving \ Unread) + 1
      BY <1>4, <1>5, FS_AddElement
    <2>2. acked = Cardinality(Serving \ Unread)
      BY DEF AckInv
    <2> QED
      BY <1>4, <2>1, <2>2
  <1>7. acked' \in 0 .. PoolSize
    BY StartupAssumption DEF TypeOK, AckInv
  <1>8. acked' = PoolSize => \A w \in Workers : th[w] = "serving"
    <2> SUFFICES ASSUME acked' = PoolSize PROVE Workers = Serving' \ Unread'
      BY DEF Serving
    <2>1. Serving' \ Unread' \in SUBSET Workers
      BY DEF Serving
    <2> QED
      BY <1>6, <2>1, WorkersFinite, FS_Subset
  <1>9. (\A n \in DOMAIN acks : Truthful(acks[n]))'
    BY <1>1 DEF AckInv, Truthful
  <1>10. \A n, k \in DOMAIN acks' : acks'[n].worker = acks'[k].worker => n = k
    BY <1>1 DEF AckInv
  <1>11. ASSUME NEW w \in Workers, th[w] = "gone", failure[w] # "none"
         PROVE  \E n \in DOMAIN acks' : acks'[n].worker = w
    <2>1. PICK n \in DOMAIN acks : acks[n].worker = w
      BY <1>11 DEF AckInv
    <2>2. n # 1
      BY <1>1, <1>2, <1>11, <2>1
    <2>3. n - 1 \in DOMAIN acks' /\ acks'[n - 1] = acks[n]
      BY <1>1, <2>2
    <2> QED
      BY <2>1, <2>3
  <1> QED
    BY <1>6, <1>7, <1>8, <1>9, <1>10, <1>11

-----------------------------------------------------------------------------
LEMMA StartupInitInv == Init => TypeOK /\ StartupInv
PROOF
  <1> SUFFICES ASSUME Init PROVE TypeOK /\ StartupInv
    OBVIOUS
  <1>1. TypeOK
    <2>1. result \in [outcome : Outcomes, worker : Workers]
      BY WorkersFinite DEF Init, Report, Outcomes
    <2> QED
      BY <2>1, StartupAssumption DEF Init, TypeOK
  <1>2. WorkerInv
    BY DEF Init, WorkerInv
  <1>3. AckInv
    <2>1. Serving \ Unread = {}
      BY DEF Init, Serving
    <2> QED
      <3>1. Cardinality(Serving \ Unread) = 0
        BY <2>1, FS_EmptySet
      <3>2. acks = <<>> /\ acked = 0 /\ acked < PoolSize /\ result.outcome = "none"
        BY StartupAssumption DEF Init, Report
      <3>3. \A w \in Workers : th[w] = "none"
        BY DEF Init
      <3> QED
        BY <3>1, <3>2, <3>3 DEF AckInv
  <1>4. ResultInv
    BY DEF Init, ResultInv, Report, Failures
  <1> QED
    BY <1>1, <1>2, <1>3, <1>4 DEF StartupInv

(* A report that fits its channel.                                         *)
LEMMA ReportType ==
  ASSUME TypeOK, NEW w \in Workers, NEW o \in Outcomes
  PROVE  /\ Report(o, w) \in [outcome : Outcomes, worker : Workers]
         /\ Append(acks, Report(o, w)) \in Seq([outcome : Outcomes, worker : Workers])
PROOF
  <1>1. Report(o, w) \in [outcome : Outcomes, worker : Workers]
    BY DEF Report
  <1> QED
    BY <1>1 DEF TypeOK

LEMMA TypeStep == TypeOK /\ StartupInv /\ [Next]_vars => TypeOK'
PROOF
  <1> SUFFICES ASSUME TypeOK, StartupInv, [Next]_vars PROVE TypeOK'
    OBVIOUS
  <1> USE DEF TypeOK
  <1>0. {"Ok", "InternalError", "Timeout", "Abandoned"} \cup Failures \subseteq Outcomes
    BY DEF Outcomes
  <1>6. <<>> \in Seq([outcome : Outcomes, worker : Workers])
    OBVIOUS
  <1>1. ASSUME NEW w \in Workers, WorkerProgress(w) \/ BuildUnwinds(w)
        PROVE  TypeOK'
    <2>1. CASE StartWorker(w)
      BY <2>1 DEF StartWorker
    <2>2. CASE SpawnRefused(w)
      BY <1>0, <2>2, ReportType DEF SpawnRefused
    <2>3. CASE BuildSucceeds(w)
      BY <2>3 DEF BuildSucceeds
    <2>4. CASE BuildFails(w)
      BY <2>4 DEF BuildFails
    <2>5. CASE BuildCancelled(w)
      BY <2>5 DEF BuildCancelled
    <2>6. CASE AckSuccess(w)
      <3>1. Append(acks, Report("Ok", w)) \in Seq([outcome : Outcomes, worker : Workers])
        BY <1>0, ReportType
      <3>2. acks' \in Seq([outcome : Outcomes, worker : Workers])
        BY <2>6, <3>1 DEF AckSuccess
      <3>3. /\ th' \in [Workers -> {"none", "building", "acking", "reporting",
                                   "serving", "gone"}]
            /\ model' \in [Workers -> BOOLEAN]
        BY <2>6 DEF AckSuccess
      <3> QED
        BY <2>6, <3>2, <3>3 DEF AckSuccess
    <2>7. CASE AckFailure(w)
      <3>1. failure[w] \in Outcomes
        BY DEF Outcomes
      <3>2. Append(acks, Report(failure[w], w)) \in Seq([outcome : Outcomes, worker : Workers])
        BY <3>1, ReportType
      <3>3. acks' \in Seq([outcome : Outcomes, worker : Workers])
        BY <2>7, <3>2 DEF AckFailure
      <3> QED
        BY <2>7, <3>3 DEF AckFailure
    <2>8. CASE AccumulatorExits(w)
      BY <2>8 DEF AccumulatorExits
    <2>9. CASE ThreadExits(w)
      BY <2>9 DEF ThreadExits
    <2>10. CASE BuildUnwinds(w)
      BY <2>10 DEF BuildUnwinds
    <2> QED
      BY <1>1, <2>1, <2>2, <2>3, <2>4, <2>5, <2>6, <2>7, <2>8, <2>9, <2>10
      DEF WorkerProgress
  <1>2. CASE PollAck
    <2>1. /\ Head(acks) \in [outcome : Outcomes, worker : Workers]
          /\ Tail(acks) \in Seq([outcome : Outcomes, worker : Workers])
      <3>1. acks \in Acks /\ acks # <<>>
        BY <1>2 DEF PollAck, Acks
      <3>2. 1 \in DOMAIN acks /\ Head(acks) = acks[1] /\ Tail(acks) \in Acks
        BY <3>1 DEF Acks
      <3> QED
        BY <3>1, <3>2, AckType DEF Acks
    <2>2. caller = "waiting" /\ acked < PoolSize
      BY <1>2 DEF PollAck, Listening, StartupInv, AckInv
    <2>3. Report("Ok", 0) \in [outcome : Outcomes, worker : Workers]
      BY <1>0, WorkersFinite, ReportType
    <2>4. acked' \in 0 .. PoolSize
      BY <1>2, <2>2, StartupAssumption DEF PollAck
    <2> QED
      BY <1>2, <2>1, <2>3, <2>4, <1>6 DEF PollAck, Fail
  <1>3. CASE ChannelClosed \/ StartupTimeout \/ DropStartup
    <2>1. \A o \in {"InternalError", "Timeout", "Abandoned"} :
            Report(o, 0) \in [outcome : Outcomes, worker : Workers]
      BY <1>0, WorkersFinite, ReportType
    <2> QED
      BY <1>3, <1>6, <2>1 DEF ChannelClosed, StartupTimeout, DropStartup, Fail
  <1>4. CASE ReleaseHandle
    BY <1>4 DEF ReleaseHandle
  <1>5. CASE UNCHANGED vars
    BY <1>5 DEF vars
  <1> QED
    BY <1>1, <1>2, <1>3, <1>4, <1>5 DEF Next, CallerProgress, Terminated

LEMMA WorkerStep == TypeOK /\ StartupInv /\ [Next]_vars => WorkerInv'
PROOF
  <1> SUFFICES ASSUME TypeOK, StartupInv, [Next]_vars PROVE WorkerInv'
    OBVIOUS
  <1> USE DEF TypeOK, WorkerInv, PoolAlive
  <1>0. WorkerInv
    BY DEF StartupInv
  <1>1. ASSUME NEW w \in Workers, WorkerProgress(w) \/ BuildUnwinds(w)
        PROVE  WorkerInv'
    <2>1. CASE StartWorker(w)
      BY <1>0, <2>1 DEF StartWorker
    <2>2. CASE SpawnRefused(w)
      BY <1>0, <2>2 DEF SpawnRefused
    <2>3. CASE BuildSucceeds(w)
      BY <1>0, <2>3 DEF BuildSucceeds
    <2>4. CASE BuildFails(w)
      BY <1>0, <2>4 DEF BuildFails, Failures
    <2>5. CASE BuildCancelled(w)
      BY <1>0, <2>5 DEF BuildCancelled
    <2>6. CASE AckSuccess(w)
      <3>1. CASE Listening
        BY <1>0, <2>6, <3>1 DEF AckSuccess
      <3>2. CASE ~Listening
        BY <1>0, <2>6, <3>2 DEF AckSuccess
      <3> QED
        BY <3>1, <3>2
    <2>7. CASE AckFailure(w)
      BY <1>0, <2>7 DEF AckFailure
    <2>8. CASE AccumulatorExits(w)
      BY <1>0, <2>8 DEF AccumulatorExits
    <2>9. CASE ThreadExits(w)
      BY <1>0, <2>9 DEF ThreadExits
    <2>10. CASE BuildUnwinds(w)
      BY <1>0, <2>10 DEF BuildUnwinds
    <2> QED
      BY <1>1, <2>1, <2>2, <2>3, <2>4, <2>5, <2>6, <2>7, <2>8, <2>9, <2>10
      DEF WorkerProgress
  <1>2. CASE PollAck \/ ChannelClosed \/ StartupTimeout \/ DropStartup \/ ReleaseHandle
    BY <1>0, <1>2 DEF PollAck, ChannelClosed, StartupTimeout, DropStartup,
                      ReleaseHandle, Fail, Listening
  <1>3. CASE UNCHANGED vars
    BY <1>0, <1>3 DEF vars
  <1> QED
    BY <1>1, <1>2, <1>3 DEF Next, CallerProgress, Terminated

LEMMA AckStep == TypeOK /\ StartupInv /\ [Next]_vars => AckInv'
PROOF
  <1> SUFFICES ASSUME TypeOK, StartupInv, [Next]_vars, caller' = "waiting"
               PROVE  AckInv'
    BY DEF AckInv
  <1>0. WorkerInv /\ AckInv
    BY DEF StartupInv
  <1>1. ASSUME NEW w \in Workers, WorkerProgress(w) \/ BuildUnwinds(w)
        PROVE  AckInv'
    <2> USE DEF TypeOK, WorkerInv, Listening
    <2>0. caller = "waiting" /\ UNCHANGED <<caller, result, acked>>
      BY <1>1 DEF WorkerProgress, BuildUnwinds, StartWorker, SpawnRefused,
                  BuildSucceeds, BuildFails, BuildCancelled, AckSuccess,
                  AckFailure, AccumulatorExits, ThreadExits
    <2>1. CASE StartWorker(w)
      BY <1>0, <2>1, QuietStep DEF StartWorker
    <2>2. CASE SpawnRefused(w)
      <3>1. CASE Len(acks) < PoolSize
        BY <1>0, <2>0, <2>2, <3>1, ReportStep DEF SpawnRefused, Failures
      <3>2. CASE ~(Len(acks) < PoolSize)
        BY <1>0, <2>0, <2>2, <3>2, QuietStep DEF SpawnRefused
      <3> QED
        BY <3>1, <3>2
    <2>3. CASE BuildSucceeds(w)
      BY <1>0, <2>3, QuietStep DEF BuildSucceeds
    <2>4. CASE BuildFails(w)
      BY <1>0, <2>4, QuietStep DEF BuildFails
    <2>5. CASE BuildCancelled(w)
      BY <2>0, <2>5 DEF BuildCancelled
    <2>6. CASE AckSuccess(w)
      BY <1>0, <2>0, <2>6, ReportStep DEF AckSuccess, Failures
    <2>7. CASE AckFailure(w)
      <3>1. failure[w] \in Failures /\ predictor[w] = "Dead"
        BY <1>0, <2>7 DEF AckFailure
      <3>2. failure[w] \notin {"Ok", "InternalError"}
        BY <3>1 DEF Failures
      <3> QED
        BY <1>0, <2>0, <2>7, <3>1, <3>2, ReportStep DEF AckFailure
    <2>8. CASE AccumulatorExits(w)
      BY <2>0, <2>8 DEF AccumulatorExits, PoolAlive
    <2>9. CASE ThreadExits(w)
      BY <1>0, <2>0, <2>9 DEF ThreadExits, PoolAlive
    <2>10. CASE BuildUnwinds(w)
      BY <1>0, <2>10, QuietStep DEF BuildUnwinds
    <2> QED
      BY <1>1, <2>1, <2>2, <2>3, <2>4, <2>5, <2>6, <2>7, <2>8, <2>9, <2>10
      DEF WorkerProgress
  <1>2. CASE PollAck
    <2>1. /\ caller = "waiting" /\ acks # <<>>
          /\ Head(acks).outcome = "Ok" /\ acks' = Tail(acks)
          /\ acked' = acked + 1 /\ acked' # PoolSize
          /\ UNCHANGED <<result, th, failure, predictor>>
      BY <1>2 DEF PollAck, Listening, Fail
    <2>2. acked' < PoolSize
      BY <1>0, <2>1, ReadStep, StartupAssumption
    <2> QED
      BY <1>0, <2>1, <2>2, ReadStep DEF AckInv
  <1>3. CASE ChannelClosed \/ StartupTimeout \/ DropStartup \/ ReleaseHandle
    BY <1>3 DEF ChannelClosed, StartupTimeout, DropStartup, ReleaseHandle, Fail
  <1>4. CASE UNCHANGED vars
    BY <1>0, <1>4 DEF vars, AckInv, Truthful, Serving, Unread
  <1> QED
    BY <1>1, <1>2, <1>3, <1>4 DEF Next, CallerProgress, Terminated

LEMMA ResultStep == TypeOK /\ StartupInv /\ [Next]_vars => ResultInv'
PROOF
  <1> SUFFICES ASSUME TypeOK, StartupInv, [Next]_vars PROVE ResultInv'
    OBVIOUS
  <1> USE DEF TypeOK, WorkerInv, Listening
  <1>0. WorkerInv /\ AckInv /\ ResultInv
    BY DEF StartupInv
  <1>1. ASSUME NEW w \in Workers, th[w] # "gone", th[w] # "serving",
               UNCHANGED <<caller, result>>,
               \A v \in Workers \ {w} : /\ th'[v] = th[v]
                                        /\ failure'[v] = failure[v]
                                        /\ predictor'[v] = predictor[v]
        PROVE  ResultInv'
    BY <1>0, <1>1 DEF ResultInv, Truthful, Failures
  <1>2. ASSUME NEW w \in Workers, WorkerProgress(w) \/ BuildUnwinds(w)
        PROVE  ResultInv'
    <2>1. CASE \/ StartWorker(w) \/ SpawnRefused(w) \/ BuildSucceeds(w)
               \/ BuildFails(w) \/ BuildCancelled(w) \/ AckSuccess(w)
               \/ AckFailure(w) \/ BuildUnwinds(w)
      BY <1>0, <1>1, <2>1
      DEF StartWorker, SpawnRefused, BuildSucceeds, BuildFails, BuildCancelled,
          AckSuccess, AckFailure, BuildUnwinds
    <2>2. CASE AccumulatorExits(w)
      BY <1>0, <2>2 DEF AccumulatorExits, ResultInv, Truthful
    <2>3. CASE ThreadExits(w)
      BY <1>0, <2>3 DEF ThreadExits, ResultInv, Truthful, PoolAlive, Failures
    <2> QED
      BY <1>2, <2>1, <2>2, <2>3 DEF WorkerProgress
  <1>3. CASE PollAck
    <2>1. caller = "waiting" /\ acks # <<>> /\ UNCHANGED <<th, failure, predictor>>
      BY <1>3 DEF PollAck
    <2>2. Truthful(Head(acks)) /\ Head(acks).worker \in Workers
      <3>1. acks \in Acks /\ 1 \in DOMAIN acks /\ Head(acks) = acks[1]
        BY <2>1 DEF Acks
      <3> QED
        BY <1>0, <2>1, <3>1, AckType DEF AckInv
    <2>3. CASE Head(acks).outcome = "Ok"
      <3>1. acked' = PoolSize => \A w \in Workers : th[w] = "serving"
        BY <1>0, <1>3, <2>1, <2>3, ReadStep DEF PollAck, Fail
      <3> QED
        BY <1>0, <1>3, <2>1, <2>3, <3>1
        DEF PollAck, Fail, ResultInv, AckInv, Report, Failures
    <2>4. CASE Head(acks).outcome # "Ok"
      BY <1>3, <2>1, <2>2, <2>4 DEF PollAck, Fail, ResultInv, Truthful, Failures
    <2> QED
      BY <2>3, <2>4
  <1>4. CASE ChannelClosed
    <2>1. PICK w \in Workers : th[w] # "serving"
      <3> SUFFICES ASSUME \A w \in Workers : th[w] = "serving" PROVE FALSE
        OBVIOUS
      <3>1. Serving \ Unread = Workers
        BY <1>4 DEF ChannelClosed, Serving, Unread
      <3> QED
        BY <1>0, <1>4, <3>1, WorkersFinite, StartupAssumption
        DEF AckInv, ChannelClosed
    <2>2. th[w] = "gone"
      BY <1>0, <1>4, <2>1 DEF ChannelClosed, SenderAlive
    <2>3. failure[w] = "none"
      BY <1>0, <1>4, <2>2 DEF ChannelClosed, AckInv
    <2> QED
      BY <1>4, <2>2, <2>3
      DEF ChannelClosed, Fail, ResultInv, Report, Failures
  <1>5. CASE StartupTimeout \/ DropStartup
    BY <1>5 DEF StartupTimeout, DropStartup, Fail, ResultInv, Report, Failures
  <1>6. CASE ReleaseHandle
    BY <1>0, <1>6 DEF ReleaseHandle, ResultInv, Truthful
  <1>7. CASE UNCHANGED vars
    BY <1>0, <1>7 DEF vars, ResultInv, Truthful
  <1> QED
    BY <1>2, <1>3, <1>4, <1>5, <1>6, <1>7 DEF Next, CallerProgress, Terminated

-----------------------------------------------------------------------------
LEMMA StartupInvHolds == Spec => [](TypeOK /\ StartupInv)
PROOF
  <1>1. TypeOK /\ StartupInv /\ [Next]_vars => (TypeOK /\ StartupInv)'
    BY TypeStep, WorkerStep, AckStep, ResultStep DEF StartupInv
  <1> QED
    BY <1>1, StartupInitInv, PTL DEF Spec

(* Every variable keeps its type: get_batcher never counts more workers    *)
(* than there are.                                                         *)
THEOREM StartupTypeCorrect == Spec => []TypeOK
PROOF
  BY StartupInvHolds, PTL

(* get_batcher returns a handle only for a pool in which every worker      *)
(* serves with a predictor that is Alive.                                  *)
THEOREM HandleMeansServing == Spec => []ReadyMeansServing
PROOF
  <1>1. TypeOK /\ StartupInv => ReadyMeansServing
    BY DEF TypeOK, StartupInv, WorkerInv, ResultInv, ReadyMeansServing, PoolAlive
  <1> QED
    BY <1>1, StartupInvHolds, PTL

(* The error get_batcher returns names a worker that failed that way.      *)
THEOREM ErrorsAreHonest == Spec => []BlameHonest
PROOF
  <1>1. StartupInv => BlameHonest
    BY DEF StartupInv, ResultInv, Truthful, BlameHonest
  <1> QED
    BY <1>1, StartupInvHolds, PTL
=============================================================================
