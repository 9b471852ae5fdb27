------------------------ MODULE OutputDeliveryProofs ------------------------
(***************************************************************************)
(* What the outputs hold of a batch, for any reports, any sets of          *)
(* destinations and any number of attempts, whichever calls fail and       *)
(* wherever an attempt is cut short.                                       *)
(*                                                                         *)
(* The invariant follows the list of calls.  Of a call under way it says   *)
(* what its destination holds so far; of a call that is over, that its     *)
(* destination holds the report, or that there was an error with a reason. *)
(***************************************************************************)
EXTENDS OutputDelivery, TLAPS

Deduplicating == Search \cup {"postgresql", "s3"}

Trusted == Confirming \ Search

TypeInv ==
    /\ configured \in ConfiguredSets
    /\ todo \subseteq Calls(configured)
    /\ sent \in Nat
    /\ intact \in [Reports -> BOOLEAN]
    /\ errors \in BOOLEAN
    /\ outcome \in {"running", "saved", "unsaved", "raised"}
    /\ stored \in [Destinations -> [Docs -> Nat]]
    /\ failed \subseteq Destinations

(***************************************************************************)
(* A call under way.  Nothing of the report was there before; then         *)
(* documents have come one after the other, or will all come in the end.   *)
(***************************************************************************)
SentInv ==
    \A c \in todo :
        outcome = "running" /\ First(c) /\ sent > 0 =>
            \A x \in DocsOf(c) :
                /\ c.dest \in Search /\ x[2] > sent => stored[c.dest][x] = 0
                /\ c.dest = "postgresql" => stored[c.dest][x] = 0
                /\ c.dest = "kafka" /\ x[2] <= sent => stored[c.dest][x] > 0

Excused(d, r) == errors /\ (d \in failed \/ Deprived(d, r))

(***************************************************************************)
(* A call that is over.                                                    *)
(***************************************************************************)
Settled(c) ==
    c.dest \in Trusted =>
        \A x \in DocsOf(c) : stored[c.dest][x] > 0 \/ Excused(c.dest, x[1])

SettledInv == outcome = "running" => \A c \in Calls(configured) \ todo : Settled(c)

IInv ==
    /\ TypeInv /\ SentInv /\ SettledInv
    /\ DedupedOnce /\ PostgresAtomic
    /\ SavedMeansDelivered /\ FailureIsolated

-----------------------------------------------------------------------------
(***************************************************************************)
(* Calls and documents.                                                    *)
(***************************************************************************)
LEMMA CallType ==
    ASSUME NEW s \in ConfiguredSets, NEW c \in Calls(s)
    PROVE  /\ c \in AllCalls /\ c.dest \in s /\ c.dest \in Destinations
           /\ c.kind \in Kinds /\ c.at \in Int
           /\ c.dest \in OneByOne => c.at \in Positions(c.kind)
           /\ ReportsOf(c) \subseteq Reports
           /\ c.dest \in OneByOne => TheReport(c) \in Reports
<1>1. c \in AllCalls /\ c.dest \in s
  BY DEF Calls
<1>2. PICK k \in Kinds : c \in CallsFor(k)
  BY <1>1 DEF AllCalls
<1>3. CASE c \in [dest : OneByOne, kind : {k}, at : Positions(k)]
  <2>1. c.dest \in OneByOne /\ c.kind = k /\ c.at \in Positions(k)
    BY <1>3
  <2> QED
    BY <1>1, <2>1 DEF Destinations, Positions, ReportsOf, TheReport, Reports
<1>4. CASE c \in [dest : AtOnce, kind : {k}, at : {Last(k)}]
  <2>1. c.dest \in AtOnce /\ c.kind = k /\ c.at = Last(k)
    BY <1>4
  <2>2. c.dest \notin OneByOne
    BY <2>1 DEF AtOnce, OneByOne, Search, Logging
  <2>3. Last(k) \in Int
    BY DeliveryAssumption DEF Last
  <2> QED
    BY <1>1, <2>1, <2>2, <2>3 DEF Destinations, ReportsOf, Reports
<1> QED
  BY <1>2, <1>3, <1>4 DEF CallsFor

LEMMA DocType ==
    ASSUME NEW x \in Docs
    PROVE  x[1] \in Reports /\ x[2] \in 1 .. Size(x[1]) /\ x = <<x[1], x[2]>>
<1>1. PICK r \in Reports : x \in {<<r, i>> : i \in 1 .. Size(r)}
  BY DEF Docs
<1> QED
  BY <1>1

(***************************************************************************)
(* Whichever documents and destination: some call has them.                *)
(***************************************************************************)
LEMMA EachHasACall ==
    ASSUME NEW s \in ConfiguredSets, NEW d \in s, NEW x \in Docs
    PROVE  \E c \in Calls(s) : c.dest = d /\ x \in DocsOf(c)
<1>1. d \in Destinations
  BY DeliveryAssumption
<1>2. PICK k \in Kinds : x[1] \in {Batch(k)[i] : i \in Positions(k)}
  BY DocType DEF Reports
<1>3. PICK i \in Positions(k) : x[1] = Batch(k)[i]
  BY <1>2
<1>4. CASE d \in OneByOne
  <2> DEFINE c == [dest |-> d, kind |-> k, at |-> i]
  <2>1. c \in CallsFor(k)
    BY <1>3, <1>4 DEF CallsFor
  <2>2. c \in Calls(s) /\ c.dest = d
    BY <2>1 DEF Calls, AllCalls
  <2>3. x \in DocsOf(c)
    BY <1>3, <1>4 DEF DocsOf, ReportsOf, TheReport
  <2> QED
    BY <2>2, <2>3
<1>5. CASE d \in AtOnce /\ d \notin OneByOne
  <2> DEFINE c == [dest |-> d, kind |-> k, at |-> Last(k)]
  <2>1. c \in CallsFor(k)
    BY <1>3, <1>5 DEF CallsFor
  <2>2. c \in Calls(s) /\ c.dest = d
    BY <2>1 DEF Calls, AllCalls
  <2>3. x \in DocsOf(c)
    BY <1>3, <1>5 DEF DocsOf, ReportsOf
  <2> QED
    BY <2>2, <2>3
<1> QED
  BY <1>1, <1>4, <1>5 DEF Destinations

(***************************************************************************)
(* Two calls do not each come before the other.                            *)
(***************************************************************************)
LEMMA OneFirst ==
    ASSUME TypeInv, NEW c, First(c), NEW d, First(d)
    PROVE  c = d
<1> SUFFICES ASSUME c # d PROVE FALSE
  OBVIOUS
<1>1. Before(c, d) /\ Before(d, c)
  BY DEF First
<1>2. /\ c.dest \in Destinations /\ d.dest \in Destinations
      /\ c.kind \in Kinds /\ d.kind \in Kinds
      /\ c.at \in Int /\ d.at \in Int
  BY CallType DEF First, TypeInv
<1>3. Stage(c) \in Int /\ Stage(d) \in Int
  BY DEF Stage
<1>4. KindTurn[c.kind] \in Int /\ KindTurn[d.kind] \in Int
  <2>1. \A k \in Kinds : k \in {"aggregate", "failure", "smtp_tls"}
    BY DeliveryAssumption
  <2> QED
    BY <1>2, <2>1 DEF KindTurn
<1>5. DestTurn[c.dest] \in Int /\ DestTurn[d.dest] \in Int
  BY <1>2 DEF DestTurn, Destinations, OneByOne, AtOnce, Search, Logging
<1> QED
  BY <1>1, <1>2, <1>3, <1>4, <1>5 DEF Before, SameKind

-----------------------------------------------------------------------------
(***************************************************************************)
(* What a step of a call does to the documents stored.                     *)
(***************************************************************************)
Grown(c) ==
    /\ stored' \in [Destinations -> [Docs -> Nat]]
    /\ \A d \in Destinations : d # c.dest => stored'[d] = stored[d]
    /\ \A d \in Destinations : \A x \in Docs : stored'[d][x] >= stored[d][x]

LEMMA DepositStores ==
    ASSUME TypeInv, NEW c \in todo, NEW docs, Deposit(c, docs)
    PROVE  /\ Grown(c)
           /\ \A x \in Docs : stored'[c.dest][x] =
                 IF x \in docs THEN stored[c.dest][x] + 1 ELSE stored[c.dest][x]
<1>1. c.dest \in Destinations
  BY CallType DEF TypeInv
<1>2. stored \in [Destinations -> [Docs -> Nat]]
  BY DEF TypeInv
<1> QED
  BY <1>1, <1>2 DEF Deposit, Grown

LEMMA PutStores ==
    ASSUME IInv, NEW c \in todo, c.dest = "s3", Put(c)
    PROVE  /\ Grown(c)
           /\ \A x \in Docs : stored'["s3"][x] =
                 IF x \in DocsOf(c) THEN 1 ELSE stored["s3"][x]
<1>1. c.dest \in Destinations /\ "s3" \in Deduplicating
  BY CallType DEF IInv, TypeInv, Deduplicating
<1>2. stored \in [Destinations -> [Docs -> Nat]]
  BY DEF IInv, TypeInv
<1>3. \A x \in Docs : stored["s3"][x] <= 1
  BY DEF IInv, DedupedOnce
<1> QED
  BY <1>1, <1>2, <1>3 DEF Put, Grown, DocsOf

\* Of the destinations that deduplicate, how each comes to take something.
Stores(c) ==
    \/ UNCHANGED stored
    \/ c.dest \notin Deduplicating /\ (DepositAll(c) \/ DepositNext(c))
    \/ c.dest \in Search /\ (sent = 0 => ~Held(c)) /\ DepositNext(c)
    \/ c.dest = "s3" /\ Put(c)
    \/ c.dest = "postgresql" /\ sent = Size(TheReport(c)) /\ DepositAll(c)

LEMMA DeliverStores ==
    ASSUME IInv, NEW c \in todo, Deliver(c)
    PROVE  Stores(c)
<1>1. CASE SaveFiles(c) \/ PublishJson(c)
  BY <1>1 DEF SaveFiles, PublishJson, SaveAll, Stores, Deduplicating, Search
<1>2. CASE AlreadyIndexed(c) \/ SearchFails(c) \/ Reconnect(c) \/ ConnectionDrops(c)
           \/ SaveAggregate(c) \/ SaveFailure(c) \/ SaveSmtpTls(c)
  BY <1>2 DEF AlreadyIndexed, SearchFails, Reconnect, ConnectionDrops, SaveAggregate,
     SaveFailure, SaveSmtpTls, Save, Stores
<1>3. CASE IndexDoc(c) \/ IndexFails(c)
  BY <1>3 DEF IndexDoc, IndexFails, Stores
<1>4. CASE SendSlice(c) \/ SendFailure(c) \/ SendSmtpTls(c) \/ SendFails(c)
  BY <1>4 DEF SendSlice, SendFailure, SendSmtpTls, SendFails, Send, Stores,
     Deduplicating, Search
<1>5. CASE PutObject(c)
  BY <1>5 DEF PutObject, Stores
<1>6. CASE Commit(c) \/ StatementFails(c)
  BY <1>6 DEF Commit, StatementFails, Stores
<1>7. CASE EmitSyslog(c) \/ EmitGelf(c) \/ SendToWebhook(c)
  BY <1>7 DEF EmitSyslog, EmitGelf, Emit, SendToWebhook, Stores, Deduplicating, Search
<1>8. CASE PostAggregate(c) \/ PostFailure(c) \/ PostSmtpTls(c)
  BY <1>8 DEF PostAggregate, PostFailure, PostSmtpTls, Post, Stores, Deduplicating, Search
<1> QED
  BY <1>1, <1>2, <1>3, <1>4, <1>5, <1>6, <1>7, <1>8 DEF Deliver

LEMMA DeliverGrows ==
    ASSUME IInv, NEW c \in todo, Deliver(c)
    PROVE  Grown(c)
<1>1. TypeInv
  BY DEF IInv
<1>2. CASE UNCHANGED stored
  BY <1>1, <1>2 DEF Grown, TypeInv
<1>3. CASE DepositAll(c) \/ DepositNext(c)
  BY <1>1, <1>3, DepositStores DEF DepositAll, DepositNext
<1>4. CASE c.dest = "s3" /\ Put(c)
  BY <1>4, PutStores
<1> QED
  BY <1>2, <1>3, <1>4, DeliverStores DEF Stores

-----------------------------------------------------------------------------
(***************************************************************************)
(* Nothing is stored twice where it is looked for first.                   *)
(***************************************************************************)
LEMMA UnderWay ==
    ASSUME IInv, NEW c \in todo, Deliver(c)
    PROVE  /\ sent > 0 =>
                \A x \in DocsOf(c) :
                    /\ c.dest \in Search /\ x[2] > sent => stored[c.dest][x] = 0
                    /\ c.dest = "postgresql" => stored[c.dest][x] = 0
                    /\ c.dest = "kafka" /\ x[2] <= sent => stored[c.dest][x] > 0
           /\ sent = 0 /\ ~Held(c) => \A x \in DocsOf(c) : stored[c.dest][x] = 0
<1>1. outcome = "running" /\ First(c)
  BY DEF Deliver
<1>2. c.dest \in Destinations /\ \A x \in Docs : stored[c.dest][x] \in Nat
  BY CallType DEF IInv, TypeInv
<1> QED
  BY <1>1, <1>2 DEF IInv, SentInv, Held, DocsOf

LEMMA NextDoc ==
    ASSUME IInv, NEW c \in todo, c.dest \in OneByOne
    PROVE  /\ <<TheReport(c), sent + 1>> \in Docs => <<TheReport(c), sent + 1>> \in DocsOf(c)
           /\ <<TheReport(c), sent + 1>>[2] = sent + 1
           /\ Size(TheReport(c)) \in Nat \ {0}
<1>1. TheReport(c) \in Reports
  BY CallType DEF IInv, TypeInv
<1> QED
  BY <1>1, DeliveryAssumption DEF DocsOf, ReportsOf

LEMMA DedupedKept ==
    ASSUME IInv, NEW c \in todo, Deliver(c)
    PROVE  DedupedOnce'
<1> SUFFICES ASSUME NEW d \in Deduplicating, NEW x \in Docs
             PROVE  stored'[d][x] <= 1
  BY DEF DedupedOnce, Deduplicating
<1>1. d \in Destinations /\ stored[d][x] \in Nat /\ stored[d][x] <= 1
  BY DEF IInv, TypeInv, DedupedOnce, Deduplicating, Destinations, OneByOne
<1>2. Grown(c)
  BY DeliverGrows
<1>3. CASE c.dest # d \/ UNCHANGED stored
  BY <1>1, <1>2, <1>3 DEF Grown
<1>4. CASE c.dest = d /\ c.dest \in Search /\ (sent = 0 => ~Held(c)) /\ DepositNext(c)
  <2>1. c.dest \in OneByOne /\ sent \in Nat
    BY <1>4 DEF OneByOne, IInv, TypeInv
  <2>2. stored'[d][x] = IF x \in {<<TheReport(c), sent + 1>>} THEN stored[d][x] + 1
                                                              ELSE stored[d][x]
    BY <1>4, DepositStores DEF DepositNext, IInv
  <2>3. CASE x = <<TheReport(c), sent + 1>>
    <3>1. x \in DocsOf(c) /\ x[2] > sent
      BY <2>1, <2>3, NextDoc
    <3>2. stored[d][x] = 0
      BY <1>4, <2>1, <3>1, UnderWay
    <3> QED
      BY <2>2, <3>2
  <2> QED
    BY <1>1, <2>2, <2>3
<1>5. CASE c.dest = d /\ c.dest = "s3" /\ Put(c)
  BY <1>1, <1>5, PutStores
<1>6. CASE c.dest = d /\ c.dest = "postgresql" /\ sent = Size(TheReport(c)) /\ DepositAll(c)
  <2>1. sent > 0
    <3>1. c.dest \in OneByOne
      BY <1>6 DEF OneByOne
    <3>2. Size(TheReport(c)) \in Nat \ {0}
      BY <3>1, NextDoc
    <3> QED
      BY <1>6, <3>2
  <2>2. stored'[d][x] = IF x \in DocsOf(c) THEN stored[d][x] + 1 ELSE stored[d][x]
    BY <1>6, DepositStores DEF DepositAll, IInv
  <2>3. x \in DocsOf(c) => stored[d][x] = 0
    BY <1>6, <2>1, UnderWay
  <2> QED
    BY <1>1, <2>2, <2>3
<1> QED
  BY <1>3, <1>4, <1>5, <1>6, DeliverStores DEF Stores

(***************************************************************************)
(* PostgreSQL takes all documents of the reports of a call, or none.       *)
(***************************************************************************)
LEMMA AtomicKept ==
    ASSUME IInv, NEW c \in todo, Deliver(c)
    PROVE  PostgresAtomic'
<1>1. PostgresAtomic /\ "postgresql" \in Destinations
  BY DEF IInv, Destinations, OneByOne
<1>2. CASE stored'["postgresql"] = stored["postgresql"]
  BY <1>1, <1>2 DEF PostgresAtomic
<1>3. CASE c.dest = "postgresql" /\ DepositAll(c)
  <2>1. \A x \in Docs : stored'["postgresql"][x] =
           IF x \in DocsOf(c) THEN stored["postgresql"][x] + 1 ELSE stored["postgresql"][x]
    BY <1>3, DepositStores DEF DepositAll, IInv
  <2>2. \A x, y \in Docs : x[1] = y[1] => (x \in DocsOf(c) <=> y \in DocsOf(c))
    BY DEF DocsOf
  <2> QED
    BY <1>1, <2>1, <2>2 DEF PostgresAtomic
<1>4. Grown(c)
  BY DeliverGrows
<1>5. c.dest # "postgresql" => stored'["postgresql"] = stored["postgresql"]
  BY <1>1, <1>4 DEF Grown
<1> QED
  BY <1>2, <1>3, <1>5, DeliverStores DEF Stores, Deduplicating, Search

-----------------------------------------------------------------------------
(***************************************************************************)
(* How a step leaves the list of calls: the call is over, with what its    *)
(* destination holds or with an error; it raised; or it goes on.           *)
(***************************************************************************)
Done(c) ==
    /\ Advance(c)
    /\ c.dest \in Trusted => \A x \in DocsOf(c) : stored'[c.dest][x] > 0

Failed(c) ==
    /\ sent' = 0 /\ errors' = TRUE /\ UNCHANGED outcome
    /\ todo' \subseteq todo /\ \A d \in todo \ todo' : d = c \/ d.dest = c.dest
    /\ \/ c.dest \in failed'
       \/ todo' = todo \ {c} /\ \A x \in DocsOf(c) : Deprived(c.dest, x[1])
       \/ todo' = todo \ {c} /\ c.dest \notin Trusted

Raised == outcome' = "raised" /\ UNCHANGED <<todo, sent, errors>>

GoesOn(c) ==
    /\ UNCHANGED <<todo, errors, outcome>>
    /\ \/ UNCHANGED <<sent, stored>>
       \/ /\ sent' = sent + 1
          /\ \/ c.dest \in Search \cup {"kafka"} /\ DepositNext(c)
                /\ (c.dest \in Search /\ sent = 0 => ~Held(c))
             \/ c.dest = "postgresql" /\ UNCHANGED stored
                /\ (sent = 0 => ~Held(c))

Ends(c) == Done(c) \/ Failed(c) \/ Raised \/ GoesOn(c)

LEMMA StrippedDeprived ==
    ASSUME IInv, NEW c \in todo, c.dest \in {"s3", "postgresql"},
           Stripped(c) \/ (c.dest = "s3" /\ c.kind = "failure")
    PROVE  \A x \in DocsOf(c) : Deprived(c.dest, x[1])
<1>1. c.dest \in OneByOne /\ c.kind \in Kinds /\ c.at \in Positions(c.kind)
  BY CallType DEF IInv, TypeInv, OneByOne
<1>2. \A x \in DocsOf(c) : x[1] = TheReport(c)
  BY <1>1 DEF DocsOf, ReportsOf
<1>3. CASE Stripped(c)
  BY <1>1, <1>2, <1>3 DEF Stripped, ReportsOf, Deprived
<1>4. CASE c.dest = "s3" /\ c.kind = "failure"
  BY <1>1, <1>2, <1>4 DEF TheReport, Deprived
<1> QED
  BY <1>3, <1>4

LEMMA DepositedAll ==
    ASSUME IInv, NEW c \in todo, DepositAll(c)
    PROVE  \A x \in DocsOf(c) : stored'[c.dest][x] > 0
<1>1. c.dest \in Destinations /\ \A x \in Docs : stored[c.dest][x] \in Nat
  BY CallType DEF IInv, TypeInv
<1>2. \A x \in Docs : stored'[c.dest][x] =
         IF x \in DocsOf(c) THEN stored[c.dest][x] + 1 ELSE stored[c.dest][x]
  BY DepositStores DEF DepositAll, IInv
<1> QED
  BY <1>1, <1>2 DEF DocsOf

LEMMA FileEnds ==
    ASSUME IInv, NEW c \in todo, SaveFiles(c) \/ PublishJson(c)
    PROVE  Ends(c)
<1>1. CASE DepositAll(c) /\ Advance(c)
  BY <1>1, DepositedAll DEF Ends, Done
<1>2. CASE GivesUp(c) /\ Fault(c)
  BY <1>2 DEF GivesUp, Fault, Ends, Failed
<1> QED
  BY <1>1, <1>2 DEF SaveFiles, PublishJson, SaveAll

LEMMA SearchEnds ==
    ASSUME IInv, NEW c \in todo,
           AlreadyIndexed(c) \/ SearchFails(c) \/ IndexDoc(c) \/ IndexFails(c)
    PROVE  Ends(c)
<1>1. c.dest \in Search /\ c.dest \notin Trusted
  BY DEF AlreadyIndexed, SearchFails, IndexDoc, IndexFails, Trusted
<1>2. CASE AlreadyIndexed(c)
  BY <1>1, <1>2 DEF AlreadyIndexed, Ends, Done
<1>3. CASE SearchFails(c)
  BY <1>1, <1>3 DEF SearchFails, Escape, LogError, Fault, Ends, Failed, Raised
<1>4. CASE IndexFails(c)
  BY <1>1, <1>4 DEF IndexFails, LogError, Fault, Ends, Failed
<1>5. CASE IndexDoc(c)
  <2>1. Step(c) /\ DepositNext(c) /\ (sent = 0 => ~Held(c))
    BY <1>5 DEF IndexDoc
  <2>2. CASE Advance(c)
    BY <1>1, <2>2 DEF Ends, Done
  <2>3. CASE sent' = sent + 1 /\ UNCHANGED <<todo, errors, outcome>>
    BY <1>1, <2>1, <2>3 DEF Ends, GoesOn
  <2> QED
    BY <2>1, <2>2, <2>3 DEF Step
<1> QED
  BY <1>2, <1>3, <1>4, <1>5

LEMMA KafkaEnds ==
    ASSUME IInv, NEW c \in todo, Deliver(c),
           SendSlice(c) \/ SendFailure(c) \/ SendSmtpTls(c) \/ SendFails(c)
    PROVE  Ends(c)
<1>1. c.dest = "kafka" /\ c.dest \in OneByOne /\ c.dest \in Destinations
  BY DEF SendSlice, SendFailure, SendSmtpTls, SendFails, Send, OneByOne, Destinations
<1>2. CASE SendFails(c)
  BY <1>2 DEF SendFails, LogError, Fault, Ends, Failed
<1>3. CASE ~SendFails(c)
  <2>1. DepositNext(c) /\ Step(c)
    BY <1>3 DEF SendSlice, SendFailure, SendSmtpTls, Send
  <2>2. CASE sent' = sent + 1 /\ UNCHANGED <<todo, errors, outcome>>
    BY <1>1, <2>1, <2>2 DEF Ends, GoesOn, Search
  <2>3. CASE sent + 1 = Size(TheReport(c)) /\ Advance(c)
    <3> SUFFICES ASSUME NEW x \in DocsOf(c) PROVE stored'["kafka"][x] > 0
      BY <1>1, <2>3 DEF Ends, Done
    <3>1. x \in Docs /\ x = <<TheReport(c), x[2]>> /\ x[2] \in 1 .. sent + 1
      BY <1>1, <2>3, DocType DEF DocsOf, ReportsOf
    <3>2. stored["kafka"][x] \in Nat /\ sent \in Nat
      BY <1>1, <3>1 DEF IInv, TypeInv
    <3>3. stored'["kafka"][x] = IF x \in {<<TheReport(c), sent + 1>>}
                                THEN stored["kafka"][x] + 1 ELSE stored["kafka"][x]
      BY <1>1, <2>1, <3>1, DepositStores DEF DepositNext, IInv
    <3>4. CASE x[2] = sent + 1
      BY <3>1, <3>2, <3>3, <3>4
    <3>5. CASE x[2] <= sent
      <4>1. sent > 0
        BY <3>1, <3>2, <3>5
      <4>2. stored["kafka"][x] > 0
        BY <1>1, <3>5, <4>1, UnderWay
      <4> QED
        BY <3>2, <3>3, <4>2
    <3> QED
      BY <3>1, <3>2, <3>4, <3>5
  <2> QED
    BY <2>1, <2>2, <2>3 DEF Step
<1> QED
  BY <1>2, <1>3

LEMMA S3Ends ==
    ASSUME IInv, NEW c \in todo, PutObject(c)
    PROVE  Ends(c)
<1>1. c.dest = "s3"
  BY DEF PutObject
<1>2. CASE Unkeyed(c) /\ LogError(c)
  BY <1>1, <1>2, StrippedDeprived DEF Unkeyed, LogError, Ends, Failed
<1>3. CASE Put(c) /\ Advance(c)
  <2>1. \A x \in Docs : stored'["s3"][x] = IF x \in DocsOf(c) THEN 1 ELSE stored["s3"][x]
    BY <1>1, <1>3, PutStores
  <2> QED
    BY <1>1, <1>3, <2>1 DEF Ends, Done, DocsOf
<1>4. CASE LogError(c) /\ Fault(c)
  BY <1>4 DEF LogError, Fault, Ends, Failed
<1> QED
  BY <1>2, <1>3, <1>4 DEF PutObject

LEMMA PostgresEnds ==
    ASSUME IInv, NEW c \in todo,
           \/ Reconnect(c) \/ ConnectionDrops(c) \/ Commit(c) \/ StatementFails(c)
           \/ SaveAggregate(c) \/ SaveFailure(c) \/ SaveSmtpTls(c)
    PROVE  Ends(c)
<1>1. c.dest = "postgresql" /\ c.dest \in OneByOne
  BY DEF Reconnect, ConnectionDrops, Commit, StatementFails, SaveAggregate, SaveFailure,
     SaveSmtpTls, Save, OneByOne
<1>2. CASE Reconnect(c) \/ ConnectionDrops(c)
  BY <1>2 DEF Reconnect, ConnectionDrops, LogError, Fault, Ends, Failed, GoesOn
<1>3. CASE Commit(c)
  BY <1>3, DepositedAll DEF Commit, Ends, Done
<1>4. CASE StatementFails(c)
  BY <1>4 DEF StatementFails, LogError, Fault, Ends, Failed
<1>5. CASE NotNullViolated(c) /\ LogError(c)
  BY <1>1, <1>5, StrippedDeprived DEF NotNullViolated, LogError, Ends, Failed
<1>6. CASE Conflict(c) /\ Advance(c) /\ UNCHANGED stored
  <2>1. PICK y \in DocsOf(c) : stored["postgresql"][y] > 0
    BY <1>1, <1>6 DEF Conflict, Held
  <2>2. \A x \in DocsOf(c) : x \in Docs /\ x[1] = y[1]
    BY <1>1, <2>1 DEF DocsOf, ReportsOf
  <2>3. \A x \in DocsOf(c) : stored["postgresql"][x] = stored["postgresql"][y]
    BY <2>1, <2>2 DEF IInv, PostgresAtomic
  <2> QED
    BY <1>1, <1>6, <2>1, <2>3 DEF Ends, Done
<1>7. CASE InsertRow(c) /\ UNCHANGED stored
  <2>1. sent = 0 => ~Held(c)
    BY <1>7 DEF InsertRow, NotNullViolated, Conflict
  <2> QED
    BY <1>1, <1>7, <2>1 DEF InsertRow, Ends, GoesOn
<1> QED
  BY <1>2, <1>3, <1>4, <1>5, <1>6, <1>7 DEF SaveAggregate, SaveFailure, SaveSmtpTls, Save

LEMMA LogEnds ==
    ASSUME IInv, NEW c \in todo, EmitSyslog(c) \/ EmitGelf(c) \/ SendToWebhook(c)
    PROVE  Ends(c)
<1>1. c.dest \notin Trusted
  BY DEF EmitSyslog, EmitGelf, Emit, SendToWebhook, Trusted, Confirming, Logging
<1>2. Advance(c) \/ LogError(c)
  BY DEF EmitSyslog, EmitGelf, Emit, SendToWebhook
<1> QED
  BY <1>1, <1>2 DEF LogError, Ends, Done, Failed

LEMMA SplunkEnds ==
    ASSUME IInv, NEW c \in todo, PostAggregate(c) \/ PostFailure(c) \/ PostSmtpTls(c)
    PROVE  Ends(c)
<1>1. CASE DepositAll(c) /\ Advance(c)
  BY <1>1, DepositedAll DEF Ends, Done
<1>2. CASE LogError(c) /\ Fault(c)
  BY <1>2 DEF LogError, Fault, Ends, Failed
<1>3. CASE Escape
  BY <1>3 DEF Escape, Ends, Raised
<1> QED
  BY <1>1, <1>2, <1>3 DEF PostAggregate, PostFailure, PostSmtpTls, Post

LEMMA DeliverEnds ==
    ASSUME IInv, NEW c \in todo, Deliver(c)
    PROVE  Ends(c)
BY FileEnds, SearchEnds, KafkaEnds, S3Ends, PostgresEnds, LogEnds, SplunkEnds DEF Deliver

-----------------------------------------------------------------------------
(***************************************************************************)
(* What no call changes, and what it only adds to.                         *)
(***************************************************************************)
LEMMA DeliverFrame ==
    ASSUME IInv, NEW c \in todo, Deliver(c)
    PROVE  /\ configured' = configured
           /\ failed' \in {failed, failed \cup {c.dest}}
           /\ intact' \in [Reports -> BOOLEAN]
           /\ \A r \in Reports : intact'[r] => intact[r]
<1>1. intact \in [Reports -> BOOLEAN]
  BY DEF IInv, TypeInv
<1>2. CASE UNCHANGED <<configured, intact>>
  <2>1. failed' \in {failed, failed \cup {c.dest}}
    BY DEF Deliver, SaveFiles, PublishJson, SaveAll, AlreadyIndexed, SearchFails, IndexDoc,
       IndexFails, SendSlice, SendFailure, SendSmtpTls, SendFails, Send, PutObject,
       Reconnect, ConnectionDrops, SaveAggregate, SaveFailure, SaveSmtpTls, Save, Commit,
       StatementFails, EmitSyslog, EmitGelf, Emit, SendToWebhook, PostAggregate,
       PostFailure, PostSmtpTls, Post, Fault
  <2> QED
    BY <1>1, <1>2, <2>1
<1>3. CASE Strip(c) /\ UNCHANGED configured /\ (UNCHANGED failed \/ Fault(c))
  BY <1>1, <1>3 DEF Strip, Fault
<1>4. SendSlice(c) \/ SendFailure(c) \/ SendSmtpTls(c) \/ SendFails(c) =>
         Strip(c) /\ UNCHANGED configured /\ (UNCHANGED failed \/ Fault(c))
  BY DEF SendSlice, SendFailure, SendSmtpTls, SendFails, Send
<1>5. \/ SendSlice(c) \/ SendFailure(c) \/ SendSmtpTls(c) \/ SendFails(c)
      \/ UNCHANGED <<configured, intact>>
  BY DEF Deliver, SaveFiles, PublishJson, SaveAll, AlreadyIndexed, SearchFails, IndexDoc,
     IndexFails, PutObject, Reconnect, ConnectionDrops, SaveAggregate, SaveFailure,
     SaveSmtpTls, Save, Commit, StatementFails, EmitSyslog, EmitGelf, Emit, SendToWebhook,
     PostAggregate, PostFailure, PostSmtpTls, Post, held
<1> QED
  BY <1>2, <1>3, <1>4, <1>5

LEMMA TypeKept ==
    ASSUME IInv, NEW c \in todo, Deliver(c)
    PROVE  TypeInv'
<1>1. /\ Ends(c) /\ Grown(c)
      /\ configured' = configured
      /\ failed' \in {failed, failed \cup {c.dest}}
      /\ intact' \in [Reports -> BOOLEAN]
  BY DeliverEnds, DeliverGrows, DeliverFrame
<1>2. TypeInv /\ c.dest \in Destinations
  BY CallType DEF IInv, TypeInv
<1>3. /\ todo' \subseteq todo /\ sent' \in Nat /\ errors' \in BOOLEAN
      /\ outcome' \in {outcome, "raised"}
  <2>1. sent \in Nat /\ sent + 1 \in Nat /\ errors \in BOOLEAN
    BY <1>2 DEF TypeInv
  <2>2. CASE Done(c)
    BY <2>1, <2>2 DEF Done, Advance
  <2>3. CASE Failed(c)
    BY <2>3 DEF Failed
  <2>4. CASE Raised \/ GoesOn(c)
    BY <2>1, <2>4 DEF Raised, GoesOn
  <2> QED
    BY <1>1, <2>2, <2>3, <2>4 DEF Ends
<1> QED
  BY <1>1, <1>2, <1>3 DEF TypeInv, Calls, Grown

LEMMA SentKept ==
    ASSUME IInv, NEW c \in todo, Deliver(c)
    PROVE  SentInv'
<1>1. Ends(c) /\ Grown(c)
  BY DeliverEnds, DeliverGrows
<1> SUFFICES ASSUME NEW d \in todo', outcome' = "running", First(d)', sent' > 0,
                    NEW x \in DocsOf(d)
             PROVE  /\ d.dest \in Search /\ x[2] > sent' => stored'[d.dest][x] = 0
                    /\ d.dest = "postgresql" => stored'[d.dest][x] = 0
                    /\ d.dest = "kafka" /\ x[2] <= sent' => stored'[d.dest][x] > 0
  BY DEF SentInv, DocsOf, ReportsOf, TheReport
<1>2. GoesOn(c)
  BY <1>1 DEF Ends, Done, Advance, Failed, Raised
<1>3. d = c
  <2>1. todo' = todo
    BY <1>2 DEF GoesOn
  <2>2. First(c) /\ First(d)
    BY <2>1 DEF Deliver, First
  <2> QED
    BY <2>2, OneFirst DEF IInv
<1>4. /\ c.dest \in Destinations /\ sent \in Nat
      /\ x \in Docs /\ x[2] \in Nat \ {0} /\ x = <<x[1], x[2]>>
      /\ stored[c.dest][x] \in Nat /\ stored'[c.dest][x] \in Nat
  <2>1. x \in Docs /\ c.dest \in Destinations
    BY <1>3, CallType DEF DocsOf, IInv, TypeInv
  <2>2. x[1] \in Reports /\ x[2] \in 1 .. Size(x[1]) /\ x = <<x[1], x[2]>>
    BY <2>1, DocType
  <2>3. Size(x[1]) \in Nat
    BY <2>2, DeliveryAssumption
  <2> QED
    BY <1>1, <2>1, <2>2, <2>3 DEF IInv, TypeInv, Grown
<1>5. CASE UNCHANGED <<sent, stored>>
  BY <1>3, <1>5, UnderWay
<1>6. CASE /\ sent' = sent + 1
           /\ c.dest \in Search \cup {"kafka"} /\ DepositNext(c)
           /\ c.dest \in Search /\ sent = 0 => ~Held(c)
  <2>1. c.dest \in OneByOne /\ c.dest # "postgresql"
    BY <1>6 DEF OneByOne, Search
  <2>2. x[1] = TheReport(c)
    BY <1>3, <2>1 DEF DocsOf, ReportsOf
  <2>3. stored'[c.dest][x] = IF x \in {<<TheReport(c), sent + 1>>}
                             THEN stored[c.dest][x] + 1 ELSE stored[c.dest][x]
    BY <1>4, <1>6, DepositStores DEF DepositNext, IInv
  <2>4. CASE x[2] > sent + 1
    <3>1. stored'[c.dest][x] = stored[c.dest][x]
      BY <1>4, <2>3, <2>4
    <3>2. c.dest \in Search => stored[c.dest][x] = 0
      BY <1>3, <1>4, <1>6, <2>4, UnderWay
    <3> QED
      BY <1>3, <1>4, <1>6, <2>1, <2>4, <3>1, <3>2
  <2>5. CASE x[2] = sent + 1
    BY <1>3, <1>4, <1>6, <2>1, <2>2, <2>3, <2>5
  <2>6. CASE x[2] <= sent
    <3>1. c.dest = "kafka" => stored[c.dest][x] > 0
      BY <1>3, <1>4, <2>6, UnderWay
    <3>2. stored'[c.dest][x] >= stored[c.dest][x]
      BY <1>4, <2>3
    <3> QED
      BY <1>3, <1>4, <1>6, <2>1, <2>6, <3>1, <3>2
  <2> QED
    BY <1>4, <2>4, <2>5, <2>6
<1>7. CASE /\ sent' = sent + 1
           /\ c.dest = "postgresql" /\ UNCHANGED stored
           /\ sent = 0 => ~Held(c)
  <2>1. stored[c.dest][x] = 0
    BY <1>3, <1>4, <1>7, UnderWay
  <2> QED
    BY <1>3, <1>7, <2>1 DEF Search
<1> QED
  BY <1>2, <1>5, <1>6, <1>7 DEF GoesOn

(***************************************************************************)
(* A report once deprived of its metadata stays so in this attempt.        *)
(***************************************************************************)
LEMMA DeprivedStays ==
    ASSUME NEW d, NEW r \in Reports, Deprived(d, r), intact'[r] => intact[r]
    PROVE  Deprived(d, r)'
BY DEF Deprived

LEMMA SettledKept ==
    ASSUME IInv, NEW c \in todo, Deliver(c)
    PROVE  SettledInv'
<1>1. /\ Ends(c) /\ Grown(c)
      /\ configured' = configured
      /\ failed \subseteq failed'
      /\ \A r \in Reports : intact'[r] => intact[r]
  BY DeliverEnds, DeliverGrows, DeliverFrame
<1>2. outcome = "running"
  BY DEF Deliver
<1> SUFFICES ASSUME outcome' = "running", NEW d \in Calls(configured) \ todo',
                    d.dest \in Trusted, NEW x \in DocsOf(d)
             PROVE  \/ stored'[d.dest][x] > 0
                    \/ errors' /\ (d.dest \in failed' \/ Deprived(d.dest, x[1])')
  BY <1>1 DEF SettledInv, Settled, Excused, DocsOf, ReportsOf, TheReport
<1>3. x \in Docs /\ x[1] \in Reports /\ d.dest \in Destinations
  BY DocType, CallType DEF DocsOf, IInv, TypeInv
<1>4. CASE d \notin todo
  <2>1. Settled(d)
    BY <1>2, <1>4 DEF IInv, SettledInv
  <2>2. CASE stored[d.dest][x] > 0
    <3>1. stored'[d.dest][x] >= stored[d.dest][x]
      BY <1>1, <1>3 DEF Grown
    <3>2. stored[d.dest][x] \in Nat /\ stored'[d.dest][x] \in Nat
      BY <1>1, <1>3 DEF Grown, IInv, TypeInv
    <3> QED
      BY <2>2, <3>1, <3>2
  <2>3. CASE Excused(d.dest, x[1])
    <3>1. errors'
      BY <1>1, <2>3 DEF Excused, Ends, Done, Advance, Failed, Raised, GoesOn
    <3> QED
      BY <1>1, <1>3, <2>3, <3>1, DeprivedStays DEF Excused
  <2> QED
    BY <2>1, <2>2, <2>3 DEF Settled
<1>5. CASE d \in todo
  <2>1. CASE Done(c)
    <3>1. d = c
      BY <1>5, <2>1 DEF Done, Advance
    <3> QED
      BY <2>1, <3>1 DEF Done
  <2>2. CASE Failed(c)
    <3>1. errors' /\ (d = c \/ d.dest = c.dest)
      BY <1>5, <2>2 DEF Failed
    <3>2. CASE c.dest \in failed'
      BY <3>1, <3>2
    <3>3. CASE todo' = todo \ {c} /\ \A y \in DocsOf(c) : Deprived(c.dest, y[1])
      <4>1. d = c
        BY <1>5, <3>3
      <4>2. Deprived(d.dest, x[1])
        BY <3>3, <4>1
      <4> QED
        BY <1>1, <1>3, <3>1, <4>2, DeprivedStays
    <3>4. CASE todo' = todo \ {c} /\ c.dest \notin Trusted
      BY <1>5, <3>4
    <3> QED
      BY <2>2, <3>2, <3>3, <3>4 DEF Failed
  <2>3. CASE Raised \/ GoesOn(c)
    BY <1>5, <2>3 DEF Raised, GoesOn
  <2> QED
    BY <1>1, <2>1, <2>2, <2>3 DEF Ends
<1> QED
  BY <1>4, <1>5

LEMMA DeliverKeeps ==
    ASSUME IInv, NEW c \in todo, Deliver(c)
    PROVE  IInv'
<1>1. TypeInv' /\ SentInv' /\ SettledInv' /\ DedupedOnce' /\ PostgresAtomic'
  BY TypeKept, SentKept, SettledKept, DedupedKept, AtomicKept
<1>2. outcome' \in {"running", "raised"}
  BY DeliverEnds DEF Ends, Done, Advance, Failed, Raised, GoesOn, Deliver
<1>3. SavedMeansDelivered' /\ FailureIsolated'
  BY <1>2 DEF SavedMeansDelivered, FailureIsolated
<1> QED
  BY <1>1, <1>3 DEF IInv

-----------------------------------------------------------------------------
(***************************************************************************)
(* The end of an attempt: every call is over.                              *)
(***************************************************************************)
LEMMA FinishKeeps == IInv /\ Finish => IInv'
<1> SUFFICES ASSUME IInv, Finish PROVE IInv'
  OBVIOUS
<1>1. /\ UNCHANGED <<configured, todo, sent, intact, errors, stored, failed>>
      /\ outcome = "running" /\ todo = {}
      /\ outcome' = IF ~errors THEN "saved" ELSE IF FailOnError THEN "raised" ELSE "unsaved"
  BY DEF Finish, held
<1>2. TypeInv' /\ SentInv' /\ SettledInv' /\ DedupedOnce' /\ PostgresAtomic'
  BY <1>1 DEF IInv, TypeInv, SentInv, SettledInv, DedupedOnce, PostgresAtomic
<1>3. ASSUME NEW d \in (configured \cap Confirming) \ Search, NEW x \in Docs
      PROVE  stored[d][x] > 0 \/ Excused(d, x[1])
  <2>1. PICK c \in Calls(configured) : c.dest = d /\ x \in DocsOf(c)
    BY <1>3, EachHasACall DEF IInv, TypeInv
  <2>2. Settled(c)
    BY <1>1 DEF IInv, SettledInv
  <2> QED
    BY <1>3, <2>1, <2>2 DEF Settled, Trusted
<1>4. SavedMeansDelivered'
  BY <1>1, <1>3 DEF SavedMeansDelivered, Excused
<1>5. FailureIsolated'
  BY <1>1, <1>3 DEF FailureIsolated, Excused, Deprived
<1> QED
  BY <1>2, <1>4, <1>5 DEF IInv

LEMMA RedeliverKeeps == IInv /\ Redeliver => IInv'
<1> SUFFICES ASSUME IInv, Redeliver PROVE IInv'
  OBVIOUS
<1>1. TypeInv'
  BY DEF Redeliver, IInv, TypeInv
<1>2. SentInv' /\ SettledInv' /\ SavedMeansDelivered' /\ FailureIsolated'
  BY DEF Redeliver, SentInv, SettledInv, SavedMeansDelivered, FailureIsolated
<1>3. DedupedOnce' /\ PostgresAtomic'
  BY DEF Redeliver, IInv, DedupedOnce, PostgresAtomic
<1> QED
  BY <1>1, <1>2, <1>3 DEF IInv

LEMMA StutterKeeps == IInv /\ UNCHANGED vars => IInv'
<1> SUFFICES ASSUME IInv, UNCHANGED vars PROVE IInv'
  OBVIOUS
<1>1. TypeInv'
  BY DEF vars, IInv, TypeInv
<1>2. SentInv'
  BY DEF vars, IInv, SentInv, First, DocsOf, ReportsOf, TheReport
<1>3. SettledInv'
  BY DEF vars, IInv, SettledInv, Settled, Excused, Deprived, DocsOf, ReportsOf, TheReport
<1>4. DedupedOnce' /\ PostgresAtomic' /\ SavedMeansDelivered'
  BY DEF vars, IInv, DedupedOnce, PostgresAtomic, SavedMeansDelivered
<1>5. FailureIsolated'
  BY DEF vars, IInv, FailureIsolated, Deprived
<1> QED
  BY <1>1, <1>2, <1>3, <1>4, <1>5 DEF IInv

LEMMA InitInv == Init => IInv
<1> SUFFICES ASSUME Init PROVE IInv
  OBVIOUS
<1>1. TypeInv
  BY DEF Init, TypeInv
<1>2. SentInv /\ SettledInv
  BY DEF Init, SentInv, SettledInv
<1>3. DedupedOnce /\ PostgresAtomic
  BY DEF Init, DedupedOnce, PostgresAtomic, Destinations, OneByOne
<1>4. SavedMeansDelivered /\ FailureIsolated
  BY DEF Init, SavedMeansDelivered, FailureIsolated
<1> QED
  BY <1>1, <1>2, <1>3, <1>4 DEF IInv

THEOREM DeliveryInductive == Spec => []IInv
<1>1. IInv /\ [Next]_vars => IInv'
  BY DeliverKeeps, FinishKeeps, RedeliverKeeps, StutterKeeps DEF Next, Over
<1> QED
  BY <1>1, InitInv, PTL DEF Spec

(***************************************************************************)
(* A batch that counts as saved is whole at every destination that gives   *)
(* it back, the search indexes excepted.                                   *)
(***************************************************************************)
THEOREM SavedIsDelivered == Spec => []SavedMeansDelivered
<1>1. IInv => SavedMeansDelivered
  BY DEF IInv
<1> QED
  BY <1>1, DeliveryInductive, PTL

(***************************************************************************)
(* A destination that fails costs no other destination a report.           *)
(***************************************************************************)
THEOREM FailuresIsolated == Spec => []FailureIsolated
<1>1. IInv => FailureIsolated
  BY DEF IInv
<1> QED
  BY <1>1, DeliveryInductive, PTL

(***************************************************************************)
(* However often a batch is delivered, also after a call that failed and   *)
(* had taken effect, no document is twice in Elasticsearch, OpenSearch,    *)
(* PostgreSQL or S3.                                                       *)
(***************************************************************************)
THEOREM RetriesDeduplicated == Spec => []DedupedOnce
<1>1. IInv => DedupedOnce
  BY DEF IInv
<1> QED
  BY <1>1, DeliveryInductive, PTL

(***************************************************************************)
(* PostgreSQL has all rows of a report or none.                            *)
(***************************************************************************)
THEOREM ReportsAtomic == Spec => []PostgresAtomic
<1>1. IInv => PostgresAtomic
  BY DEF IInv
<1> QED
  BY <1>1, DeliveryInductive, PTL

=============================================================================
