--------------------------- MODULE HostSessionProofs ---------------------------
(***************************************************************************)
(* The session keeps the bus, the modes of the devices and its books       *)
(* through every sequence of calls, refusals, timeouts and interruptions.  *)
(***************************************************************************)
EXTENDS HostSession, SequenceTheorems, TLAPS

-------------------------------------------------------------------------------
(***************************************************************************)
(* Proof outlines.  A call is a list of operations, so what is known       *)
(* before an operation is a fact about the list that is left: a context    *)
(* names what is known, and an outline says which operation leads from     *)
(* which context to which.                                                 *)
(***************************************************************************)
Levels == {"BUS_GNT", "BUS_GNT low", "DONE"}
Commands == {"RESET_ENABLE", "RESET", "ENTER_QPI", "EXIT_QPI", "WRITE", "READ"}
Plain ==
  {"release_pins", "restore_spi_pins", "zero_ui_in", "forget_start", "new_objects",
   "may_request", "may_start", "expect_idle", "ready", "clear_state", "poll", "record_poll",
   "wait_busy", "raise", "try", "finally"}

Operations ==
  {<<name>> : name \in Plain} \cup ({"ui_start", "bus_req", "rst_n"} \X {0, 1})
    \cup ({"oe", "drive"} \X {"HIZ", "SPI", "QPI", "READ"}) \cup ({"wait"} \X Levels)
    \cup ({"in_qpi"} \X BOOLEAN) \cup ({"spi", "qpi"} \X Devices \X Commands)

\* The operations of s, one after the other, lead from context a to context b.
Leads(Steps, a, s, b) ==
  /\ s \in Seq(Operations)
  /\ \E path :
       /\ path[0] = a /\ path[Len(s)] = b
       /\ \A i \in 1 .. Len(s) : <<path[i - 1], s[i], path[i]>> \in Steps

-------------------------------------------------------------------------------
(***************************************************************************)
(* The bus, as long as no ctrl-C has cut a call off.                       *)
(***************************************************************************)
Owned == bus_req = 1 /\ bus_gnt = 1 /\ rst_n # 0 /\ ui_start = 0 /\ seen
Quiet == released /\ bus_req = 0 /\ ui_start = 0

BusFact(c) ==
  /\ c = "free" => Quiet /\ bus_gnt = 0 /\ seen
  /\ c = "idle" => Quiet /\ bus_gnt = 0 /\ seen /\ done = 1
  /\ c = "quiet" => Quiet /\ (seen => bus_gnt = 0)
  /\ c = "started" =>
       /\ released /\ bus_req = 0 /\ bus_gnt = 0 /\ ui_start = 1
       /\ seen \/ (done = 1 /\ start_d = 0)
  /\ c = "asked" => released /\ bus_req = 1 /\ ui_start = 0
  /\ c \in {"owned", "tried"} => Owned
  /\ c = "unpadded" => Owned /\ pads = NONE
  /\ c = "handed" => Owned /\ released
BusContexts ==
  {"free", "idle", "quiet", "started", "asked", "owned", "tried", "unpadded", "handed"}

\* Operations that change neither a pin nor, from a released bus, the drive.
PinFree(o) ==
  \/ o[1] \in {"release_pins", "new_objects", "forget_start", "ready", "clear_state", "poll",
              "record_poll"}
  \/ o[1] = "oe" /\ o[2] = "HIZ"

BusStep(a, o, b) ==
  \/ PinFree(o) /\ a \in {"free", "idle", "started", "asked"} /\ b = a
  \/ PinFree(o) /\ a = "quiet" /\ b = "free"
  \/ o[1] = "may_request" /\ a \in {"free", "idle"} /\ b = "free"
  \/ o[1] = "expect_idle" /\ a = "quiet" /\ b = "idle"
  \/ o[1] = "may_start" /\ a = "free" /\ b = "idle"
  \/ o[1] = "raise" /\ a = "free" /\ b = "idle"
  \/ o[1] = "ui_start" /\ o[2] = 1 /\ a = "idle" /\ b = "started"
  \/ o[1] = "ui_start" /\ o[2] = 0 /\ a = "started" /\ b = "quiet"
  \/ o[1] = "zero_ui_in" /\ a \in {"free", "quiet", "asked"} /\ b = "quiet"
  \/ o[1] = "rst_n" /\ a \in {"free", "quiet"} /\ b = "quiet"
  \/ o[1] = "bus_req" /\ o[2] = 1 /\ a = "free" /\ b = "asked"
  \/ o[1] = "wait" /\ o[2] = "BUS_GNT" /\ a = "asked" /\ b = "owned"
  \/ o[1] \in {"drive", "restore_spi_pins", "spi", "qpi", "in_qpi"}
       /\ a \in {"owned", "tried"} /\ b = a
  \/ o[1] = "try" /\ a = "owned" /\ b = "tried"
  \/ o[1] = "finally" /\ a = "tried" /\ b = "free"
  \/ o[1] = "release_pins" /\ a = "owned" /\ b = "unpadded"
  \/ o[1] = "oe" /\ o[2] = "HIZ" /\ a = "unpadded" /\ b = "handed"
  \/ o[1] = "bus_req" /\ o[2] = 0 /\ a = "handed" /\ b = "quiet"
  \/ o[1] = "wait" /\ o[2] = "BUS_GNT low" /\ a = "quiet" /\ b = "free"
  \/ o[1] = "wait" /\ o[2] = "DONE" /\ a = "free" /\ b = "idle"
  \/ o[1] = "wait_busy" /\ a = "free" /\ b = "idle"
BusSteps ==
  {t \in BusContexts \X Operations \X BusContexts : BusStep(t[1], t[2], t[3])}

\* A wait for DONE that is reported ends with the chip idle.
Reports(name) ==
  \/ call = name /\ ~failed
  \/ call = NONE /\ last = <<name, TRUE>>
BusEnd ==
  IF Reports("wait_idle") \/ Reports("start_and_wait") THEN {"idle"} ELSE {"free", "idle"}

BusInv ==
  ~cut =>
    \E a \in BusContexts : \E b \in BusEnd :
      /\ BusFact(a) /\ Leads(BusSteps, a, todo, b)
      /\ call # NONE /\ in_try => a = "tried"

-------------------------------------------------------------------------------
(***************************************************************************)
(* The modes of the devices.                                               *)
(***************************************************************************)
AllInQpi == mode[0] = "QPI" /\ mode[1] = "QPI"

ModeFact(c) ==
  /\ c = "truthful" => (in_qpi => AllInQpi)
  /\ c = "first" => (in_qpi => AllInQpi) /\ mode[0] = "QPI"
  /\ c = "both" => AllInQpi
  /\ c = "leaving" => Owned
ModeContexts == {"truthful", "first", "both", "leaving"}

Enters(o, d) == o[1] = "spi" /\ o[2] = d /\ o[3] = "ENTER_QPI"
Exits(o) == o[1] = "qpi" /\ o[3] = "EXIT_QPI"

ModeStep(a, o, b) ==
  \/ a = "truthful" /\ b = a /\ o[1] # "in_qpi" /\ ~Exits(o)
  \/ a = "truthful" /\ b = "first" /\ Enters(o, 0)
  \/ a = "first" /\ b = a /\ o[1] \in {"drive", "spi"}
  \/ a = "first" /\ b = "both" /\ Enters(o, 1)
  \/ a = "both" /\ b = "truthful" /\ o[1] = "in_qpi" /\ o[2]
  \/ a \in {"truthful", "leaving"} /\ b = "leaving" /\ Exits(o)
  \/ a = "leaving" /\ b = a /\ o[1] \in {"drive", "restore_spi_pins"}
  \/ a = "leaving" /\ b = "truthful" /\ o[1] = "in_qpi" /\ ~o[2]
ModeSteps ==
  {t \in ModeContexts \X Operations \X ModeContexts : ModeStep(t[1], t[2], t[3])}

ModeInv ==
  /\ mode \in [Devices -> {"SPI", "QPI"}]
  /\ ~cut => \E a \in ModeContexts : ModeFact(a) /\ Leads(ModeSteps, a, todo, "truthful")

-------------------------------------------------------------------------------
(***************************************************************************)
(* A START that is reported has begun a chain, or went to a chip in reset. *)
(***************************************************************************)
BegunFact(c) ==
  c = "begun" =>
    \/ began \/ rst_n = 0
    \/ ~seen /\ start = 1 /\ done = 1 /\ bus_req = 0 /\ bus_gnt = 0
BegunContexts == {"before", "begun"}

BegunStep(a, o, b) ==
  \/ a = b /\ (o[1] \in {"ui_start", "rst_n"} => o[2] = 0)
  \/ a = "before" /\ b = "begun" /\ o[1] = "ui_start" /\ o[2] = 1
  \/ a = "before" /\ b = "begun" /\ o[1] = "raise"
BegunSteps ==
  {t \in BegunContexts \X Operations \X BegunContexts : BegunStep(t[1], t[2], t[3])}

BegunInv ==
  ~cut /\ Reports("start_and_wait") =>
    \E a \in BegunContexts : BegunFact(a) /\ Leads(BegunSteps, a, todo, "begun")

-------------------------------------------------------------------------------
(***************************************************************************)
(* A recover, from whatever state, and the reset_dma before it.            *)
(***************************************************************************)
OutOfReset == rst_n = 1 /\ done = 1
Ours == OutOfReset /\ bus_req = 1 /\ bus_gnt = 1 /\ seen
Up == OutOfReset /\ in_qpi /\ AllInQpi

UpFact(c) ==
  /\ c = "out" => rst_n = 1
  /\ c = "idle" => OutOfReset /\ seen
  /\ c = "asking" => OutOfReset /\ bus_req = 1
  /\ c \in {"ours", "first", "both"} => Ours
  /\ c = "first" => mode[0] = "QPI"
  /\ c = "both" => AllInQpi
  /\ c \in {"up", "unpadded", "handed"} => Up /\ Ours
  /\ c = "unpadded" => pads = NONE
  /\ c = "handed" => released
  /\ c = "dropped" =>
       Up /\ released /\ bus_req = 0 /\ (IF seen THEN bus_gnt = 0 ELSE bus_gnt = 1)
  /\ c = "usable" => Up /\ released /\ bus_req = 0 /\ bus_gnt = 0 /\ seen
UpContexts ==
  {"lost", "out", "idle", "asking", "ours", "first", "both", "up", "unpadded", "handed",
   "dropped", "usable"}

UpStep(a, o, b) ==
  \/ a = "lost" /\ b = a
  \/ a = "lost" /\ b = "usable" /\ o[1] = "raise"
  \/ a = "lost" /\ b = "out" /\ o[1] = "rst_n" /\ o[2] = 1
  \/ a = "out" /\ b = "idle" /\ o[1] = "expect_idle"
  \/ a = "idle" /\ b = a /\ o[1] = "may_request"
  \/ a = "idle" /\ b = "asking" /\ o[1] = "bus_req" /\ o[2] = 1
  \/ a = "asking" /\ b = "ours" /\ o[1] = "wait" /\ o[2] = "BUS_GNT"
  \/ a = "ours" /\ b = a
       /\ o[1] \in {"drive", "try", "spi", "qpi", "restore_spi_pins", "in_qpi"}
  \/ a = "ours" /\ b = "first" /\ Enters(o, 0)
  \/ a = "first" /\ b = a /\ o[1] \in {"drive", "spi"}
  \/ a = "first" /\ b = "both" /\ Enters(o, 1)
  \/ a = "both" /\ b = "up" /\ o[1] = "in_qpi" /\ o[2]
  \/ a = "up" /\ b = "usable" /\ o[1] = "finally"
  \/ a = "up" /\ b = "unpadded" /\ o[1] = "release_pins"
  \/ a = "unpadded" /\ b = "handed" /\ o[1] = "oe" /\ o[2] = "HIZ"
  \/ a = "handed" /\ b = "dropped" /\ o[1] = "bus_req" /\ o[2] = 0
  \/ a = "dropped" /\ b = "usable" /\ o[1] = "wait" /\ o[2] = "BUS_GNT low"
UpSteps == {t \in UpContexts \X Operations \X UpContexts : UpStep(t[1], t[2], t[3])}

UpInv ==
  Reports("recover") =>
    \E a \in UpContexts : UpFact(a) /\ Leads(UpSteps, a, todo, "usable")

LowFact(c) == c = "low" => ui_start = 0
LowContexts == {"high", "low"}

LowStep(a, o, b) ==
  \/ a = b /\ (o[1] = "ui_start" => o[2] = 0)
  \/ a = "high" /\ b = "low" /\ o[1] = "zero_ui_in"
LowSteps == {t \in LowContexts \X Operations \X LowContexts : LowStep(t[1], t[2], t[3])}

LowInv ==
  /\ call = "reset_dma" /\ ~failed =>
       \E a \in LowContexts : LowFact(a) /\ Leads(LowSteps, a, todo, "low")
  /\ last = <<"reset_dma", TRUE>> => ui_start = 0 /\ Leads(LowSteps, "low", todo, "low")

-------------------------------------------------------------------------------
(***************************************************************************)
(* What the chip has sampled, and the inductive invariant.                 *)
(***************************************************************************)
SampledInv ==
  /\ done \in {0, 1}
  /\ call = NONE => todo = <<>>
  /\ seen => IF rst_n = 0 THEN start_d = 0 /\ done = 1 /\ bus_gnt = 0
             ELSE start_d = ui_start

IInv == SampledInv /\ BusInv /\ ModeInv /\ BegunInv /\ UpInv /\ LowInv

-------------------------------------------------------------------------------
(***************************************************************************)
(* Lists of operations.                                                    *)
(***************************************************************************)

\* An empty list leads nowhere else.
LEMMA LeadsNowhere ==
  ASSUME NEW Steps, NEW a, NEW b
  PROVE  Leads(Steps, a, <<>>, b) <=> a = b
  <1>1. <<>> \in Seq(Operations) /\ Len(<<>>) = 0
    BY EmptySeq
  <1>2. ASSUME a = b PROVE Leads(Steps, a, <<>>, b)
    <2> DEFINE path == [i \in {0} |-> a]
    <2>1. path[0] = a /\ \A i \in 1 .. 0 : <<path[i - 1], <<>>[i], path[i]>> \in Steps
      OBVIOUS
    <2> QED BY <1>1, <1>2, <2>1 DEF Leads
  <1>3. ASSUME Leads(Steps, a, <<>>, b) PROVE a = b
    BY <1>1, <1>3 DEF Leads
  <1> QED BY <1>2, <1>3

\* The first operation leads to where the rest goes on from.
LEMMA LeadsOn ==
  ASSUME NEW Steps, NEW a, NEW s, NEW c, Leads(Steps, a, s, c), s # <<>>
  PROVE  /\ Head(s) \in Operations /\ s \in Seq(Operations)
         /\ \E b : <<a, Head(s), b>> \in Steps /\ Leads(Steps, b, Tail(s), c)
  <1>1. PICK path :
          /\ path[0] = a /\ path[Len(s)] = c
          /\ \A i \in 1 .. Len(s) : <<path[i - 1], s[i], path[i]>> \in Steps
    BY DEF Leads
  <1>2. /\ s \in Seq(Operations) /\ Len(s) \in Nat \ {0} /\ Head(s) = s[1]
        /\ Head(s) \in Operations /\ Tail(s) \in Seq(Operations)
        /\ Len(Tail(s)) = Len(s) - 1
        /\ \A i \in 1 .. Len(Tail(s)) : Tail(s)[i] = s[i + 1]
    <2>1. s \in Seq(Operations)
      BY DEF Leads
    <2> QED BY <2>1, EmptySeq, HeadTailProperties
  <1>3. <<a, Head(s), path[1]>> \in Steps
    BY <1>1, <1>2
  <1> DEFINE rest == [i \in 0 .. Len(s) - 1 |-> path[i + 1]]
  <1>4. Leads(Steps, path[1], Tail(s), c)
    <2>1. rest[0] = path[1] /\ rest[Len(Tail(s))] = c
      BY <1>1, <1>2
    <2>2. ASSUME NEW i \in 1 .. Len(Tail(s))
          PROVE  <<rest[i - 1], Tail(s)[i], rest[i]>> \in Steps
      <3>1. i + 1 \in 1 .. Len(s) /\ i - 1 \in 0 .. Len(s) - 1 /\ i \in 0 .. Len(s) - 1
        BY <1>2
      <3>2. rest[i - 1] = path[(i + 1) - 1] /\ rest[i] = path[i + 1]
        BY <3>1
      <3> QED BY <1>1, <1>2, <3>1, <3>2
    <2> HIDE DEF rest
    <2> QED BY <1>2, <2>1, <2>2 DEF Leads
  <1> QED BY <1>2, <1>3, <1>4

\* One list after the other.
LEMMA LeadsThen ==
  ASSUME NEW Steps, NEW a, NEW s, NEW b, NEW t, NEW c,
         Leads(Steps, a, s, b), Leads(Steps, b, t, c)
  PROVE  Leads(Steps, a, s \o t, c)
  <1>1. PICK p :
          /\ p[0] = a /\ p[Len(s)] = b
          /\ \A i \in 1 .. Len(s) : <<p[i - 1], s[i], p[i]>> \in Steps
    BY DEF Leads
  <1>2. PICK q :
          /\ q[0] = b /\ q[Len(t)] = c
          /\ \A i \in 1 .. Len(t) : <<q[i - 1], t[i], q[i]>> \in Steps
    BY DEF Leads
  <1>3. s \in Seq(Operations) /\ t \in Seq(Operations)
    BY DEF Leads
  <1>4. /\ s \o t \in Seq(Operations) /\ Len(s \o t) = Len(s) + Len(t)
        /\ \A i \in 1 .. Len(s) + Len(t) :
             (s \o t)[i] = IF i <= Len(s) THEN s[i] ELSE t[i - Len(s)]
    BY <1>3, ConcatProperties
  <1>5. Len(s) \in Nat /\ Len(t) \in Nat
    BY <1>3, LenProperties
  <1> DEFINE r == [i \in 0 .. Len(s) + Len(t) |->
                     IF i <= Len(s) THEN p[i] ELSE q[i - Len(s)]]
  <1>6. r[0] = a /\ r[Len(s \o t)] = c
    <2>1. r[0] = a
      BY <1>1, <1>5
    <2>2. CASE Len(t) = 0
      BY <1>1, <1>2, <1>4, <1>5, <2>1, <2>2
    <2>3. CASE Len(t) # 0
      <3>1. /\ Len(s) + Len(t) \in 0 .. Len(s) + Len(t) /\ ~(Len(s) + Len(t) <= Len(s))
            /\ (Len(s) + Len(t)) - Len(s) = Len(t)
        BY <1>5, <2>3
      <3> QED BY <1>2, <1>4, <2>1, <3>1
    <2> QED BY <2>1, <2>2, <2>3
  <1>7. ASSUME NEW i \in 1 .. Len(s \o t)
        PROVE  <<r[i - 1], (s \o t)[i], r[i]>> \in Steps
    <2>1. CASE i <= Len(s)
      <3>1. r[i - 1] = p[i - 1] /\ r[i] = p[i] /\ (s \o t)[i] = s[i] /\ i \in 1 .. Len(s)
        BY <1>4, <1>5, <2>1
      <3> QED BY <1>1, <3>1
    <2>2. CASE i > Len(s)
      <3>1. i - Len(s) \in 1 .. Len(t) /\ (s \o t)[i] = t[i - Len(s)]
        BY <1>4, <1>5, <2>2
      <3>2. r[i] = q[i - Len(s)]
        BY <1>4, <1>5, <2>2
      <3>3. r[i - 1] = q[(i - Len(s)) - 1]
        <4>1. CASE i - 1 = Len(s)
          BY <1>1, <1>2, <1>4, <1>5, <4>1
        <4>2. CASE i - 1 > Len(s)
          BY <1>4, <1>5, <4>2
        <4> QED BY <1>4, <1>5, <2>2, <4>1, <4>2
      <3> QED BY <1>2, <3>1, <3>2, <3>3
    <2>3. i <= Len(s) \/ i > Len(s)
      BY <1>4, <1>5
    <2> QED BY <2>1, <2>2, <2>3
  <1> HIDE DEF r
  <1> QED BY <1>4, <1>6, <1>7 DEF Leads

\* What the firmware is made of.
LEMMA AreOperations ==
  /\ \A name \in Plain : <<name>> \in Operations
  /\ \A v \in {0, 1} : <<"ui_start", v>> \in Operations /\ <<"bus_req", v>> \in Operations
                       /\ <<"rst_n", v>> \in Operations
  /\ \A dir \in {"HIZ", "SPI", "QPI", "READ"} :
       <<"oe", dir>> \in Operations /\ <<"drive", dir>> \in Operations
  /\ \A level \in Levels : <<"wait", level>> \in Operations
  /\ \A v \in BOOLEAN : <<"in_qpi", v>> \in Operations
  /\ \A d \in Devices, cmd \in Commands :
       <<"spi", d, cmd>> \in Operations /\ <<"qpi", d, cmd>> \in Operations
  <1>1. \A name \in Plain : <<name>> \in Operations
    BY DEF Operations
  <1>2. \A v \in {0, 1} : <<"ui_start", v>> \in Operations /\ <<"bus_req", v>> \in Operations
                       /\ <<"rst_n", v>> \in Operations
    BY DEF Operations
  <1>3. \A dir \in {"HIZ", "SPI", "QPI", "READ"} :
       <<"oe", dir>> \in Operations /\ <<"drive", dir>> \in Operations
    BY DEF Operations
  <1>4. \A level \in Levels : <<"wait", level>> \in Operations
    BY DEF Operations
  <1>5. \A v \in BOOLEAN : <<"in_qpi", v>> \in Operations
    BY DEF Operations
  <1>6. \A d \in Devices, cmd \in Commands :
       <<"spi", d, cmd>> \in Operations /\ <<"qpi", d, cmd>> \in Operations
    BY DEF Operations
  <1> QED BY <1>1, <1>2, <1>3, <1>4, <1>5, <1>6

\* Lists of one to eight operations, given one by one.
LEMMA Leads1 ==
  ASSUME NEW Steps, NEW c0,
         NEW o1 \in Operations, NEW c1, <<c0, o1, c1>> \in Steps
  PROVE  Leads(Steps, c0, <<o1>>, c1)
  <1> DEFINE s == <<o1>>
             path == [i \in 0 .. 1 |-> <<c0, c1>>[i + 1]]
  <1>1. path[0] = c0 /\ path[1] = c1
    OBVIOUS
  <1>2. s \in Seq(Operations) /\ Len(s) = 1
    OBVIOUS
  <1> HIDE DEF path
  <1>3. ASSUME NEW i \in 1 .. 1 PROVE <<path[i - 1], s[i], path[i]>> \in Steps
    BY <1>1
  <1> QED BY <1>1, <1>2, <1>3 DEF Leads

LEMMA Leads2 ==
  ASSUME NEW Steps, NEW c0,
         NEW o1 \in Operations, NEW c1, <<c0, o1, c1>> \in Steps,
         NEW o2 \in Operations, NEW c2, <<c1, o2, c2>> \in Steps
  PROVE  Leads(Steps, c0, <<o1, o2>>, c2)
  <1> DEFINE s == <<o1, o2>>
             path == [i \in 0 .. 2 |-> <<c0, c1, c2>>[i + 1]]
  <1>1. path[0] = c0 /\ path[1] = c1 /\ path[2] = c2
    OBVIOUS
  <1>2. s \in Seq(Operations) /\ Len(s) = 2
    OBVIOUS
  <1> HIDE DEF path
  <1>3. ASSUME NEW i \in 1 .. 2 PROVE <<path[i - 1], s[i], path[i]>> \in Steps
    <2>1. i = 1 \/ i = 2
      OBVIOUS
    <2> QED BY <1>1, <2>1
  <1> QED BY <1>1, <1>2, <1>3 DEF Leads

LEMMA Leads3 ==
  ASSUME NEW Steps, NEW c0,
         NEW o1 \in Operations, NEW c1, <<c0, o1, c1>> \in Steps,
         NEW o2 \in Operations, NEW c2, <<c1, o2, c2>> \in Steps,
         NEW o3 \in Operations, NEW c3, <<c2, o3, c3>> \in Steps
  PROVE  Leads(Steps, c0, <<o1, o2, o3>>, c3)
  <1> DEFINE s == <<o1, o2, o3>>
             path == [i \in 0 .. 3 |-> <<c0, c1, c2, c3>>[i + 1]]
  <1>1. path[0] = c0 /\ path[1] = c1 /\ path[2] = c2 /\ path[3] = c3
    OBVIOUS
  <1>2. s \in Seq(Operations) /\ Len(s) = 3
    OBVIOUS
  <1> HIDE DEF path
  <1>3. ASSUME NEW i \in 1 .. 3 PROVE <<path[i - 1], s[i], path[i]>> \in Steps
    <2>1. i = 1 \/ i = 2 \/ i = 3
      OBVIOUS
    <2> QED BY <1>1, <2>1
  <1> QED BY <1>1, <1>2, <1>3 DEF Leads

LEMMA Leads4 ==
  ASSUME NEW Steps, NEW c0,
         NEW o1 \in Operations, NEW c1, <<c0, o1, c1>> \in Steps,
         NEW o2 \in Operations, NEW c2, <<c1, o2, c2>> \in Steps,
         NEW o3 \in Operations, NEW c3, <<c2, o3, c3>> \in Steps,
         NEW o4 \in Operations, NEW c4, <<c3, o4, c4>> \in Steps
  PROVE  Leads(Steps, c0, <<o1, o2, o3, o4>>, c4)
  <1> DEFINE s == <<o1, o2, o3, o4>>
             path == [i \in 0 .. 4 |-> <<c0, c1, c2, c3, c4>>[i + 1]]
  <1>1. path[0] = c0 /\ path[1] = c1 /\ path[2] = c2 /\ path[3] = c3 /\ path[4] = c4
    OBVIOUS
  <1>2. s \in Seq(Operations) /\ Len(s) = 4
    OBVIOUS
  <1> HIDE DEF path
  <1>3. ASSUME NEW i \in 1 .. 4 PROVE <<path[i - 1], s[i], path[i]>> \in Steps
    <2>1. i = 1 \/ i = 2 \/ i = 3 \/ i = 4
      OBVIOUS
    <2> QED BY <1>1, <2>1
  <1> QED BY <1>1, <1>2, <1>3 DEF Leads

LEMMA Leads6 ==
  ASSUME NEW Steps, NEW c0,
         NEW o1 \in Operations, NEW c1, <<c0, o1, c1>> \in Steps,
         NEW o2 \in Operations, NEW c2, <<c1, o2, c2>> \in Steps,
         NEW o3 \in Operations, NEW c3, <<c2, o3, c3>> \in Steps,
         NEW o4 \in Operations, NEW c4, <<c3, o4, c4>> \in Steps,
         NEW o5 \in Operations, NEW c5, <<c4, o5, c5>> \in Steps,
         NEW o6 \in Operations, NEW c6, <<c5, o6, c6>> \in Steps
  PROVE  Leads(Steps, c0, <<o1, o2, o3, o4, o5, o6>>, c6)
  <1> DEFINE s == <<o1, o2, o3, o4, o5, o6>>
             path == [i \in 0 .. 6 |-> <<c0, c1, c2, c3, c4, c5, c6>>[i + 1]]
  <1>1. /\ path[0] = c0 /\ path[1] = c1 /\ path[2] = c2 /\ path[3] = c3 /\ path[4] = c4
        /\ path[5] = c5 /\ path[6] = c6
    OBVIOUS
  <1>2. s \in Seq(Operations) /\ Len(s) = 6
    OBVIOUS
  <1> HIDE DEF path
  <1>3. ASSUME NEW i \in 1 .. 6 PROVE <<path[i - 1], s[i], path[i]>> \in Steps
    <2>1. i = 1 \/ i = 2 \/ i = 3 \/ i = 4 \/ i = 5 \/ i = 6
      OBVIOUS
    <2> QED BY <1>1, <2>1
  <1> QED BY <1>1, <1>2, <1>3 DEF Leads

LEMMA Leads8 ==
  ASSUME NEW Steps, NEW c0,
         NEW o1 \in Operations, NEW c1, <<c0, o1, c1>> \in Steps,
         NEW o2 \in Operations, NEW c2, <<c1, o2, c2>> \in Steps,
         NEW o3 \in Operations, NEW c3, <<c2, o3, c3>> \in Steps,
         NEW o4 \in Operations, NEW c4, <<c3, o4, c4>> \in Steps,
         NEW o5 \in Operations, NEW c5, <<c4, o5, c5>> \in Steps,
         NEW o6 \in Operations, NEW c6, <<c5, o6, c6>> \in Steps,
         NEW o7 \in Operations, NEW c7, <<c6, o7, c7>> \in Steps,
         NEW o8 \in Operations, NEW c8, <<c7, o8, c8>> \in Steps
  PROVE  Leads(Steps, c0, <<o1, o2, o3, o4, o5, o6, o7, o8>>, c8)
  <1> DEFINE s == <<o1, o2, o3, o4, o5, o6, o7, o8>>
             path == [i \in 0 .. 8 |-> <<c0, c1, c2, c3, c4, c5, c6, c7, c8>>[i + 1]]
  <1>1. /\ path[0] = c0 /\ path[1] = c1 /\ path[2] = c2 /\ path[3] = c3 /\ path[4] = c4
        /\ path[5] = c5 /\ path[6] = c6 /\ path[7] = c7 /\ path[8] = c8
    OBVIOUS
  <1>2. s \in Seq(Operations) /\ Len(s) = 8
    OBVIOUS
  <1> HIDE DEF path
  <1>3. ASSUME NEW i \in 1 .. 8 PROVE <<path[i - 1], s[i], path[i]>> \in Steps
    <2>1. i = 1 \/ i = 2 \/ i = 3 \/ i = 4 \/ i = 5 \/ i = 6 \/ i = 7 \/ i = 8
      OBVIOUS
    <2> QED BY <1>1, <2>1
  <1> QED BY <1>1, <1>2, <1>3 DEF Leads
-------------------------------------------------------------------------------
(***************************************************************************)
(* The bus: the calls follow the outline.                                  *)
(***************************************************************************)
LEMMA BusHiz ==
  ASSUME NEW a \in {"free", "asked"} PROVE Leads(BusSteps, a, hiz, a)
  <1>1. <<a, <<"release_pins">>, a>> \in BusSteps /\ <<a, <<"oe", "HIZ">>, a>> \in BusSteps
    BY AreOperations DEF BusSteps, BusStep, BusContexts, Plain, PinFree
  <1> QED BY <1>1, Leads2, AreOperations DEF hiz, Plain

LEMMA BusKill ==
  ASSUME NEW a \in {"free", "asked"}
  PROVE  Leads(BusSteps, a, kill_dma, "free")
         /\ Leads(BusSteps, a, kill_dma \o << <<"raise">> >>, "idle")
  <1>1. /\ <<a, <<"zero_ui_in">>, "quiet">> \in BusSteps
        /\ <<"quiet", <<"rst_n", 0>>, "quiet">> \in BusSteps
        /\ <<"quiet", <<"oe", "HIZ">>, "free">> \in BusSteps
        /\ <<"free", <<"forget_start">>, "free">> \in BusSteps
        /\ <<"free", <<"raise">>, "idle">> \in BusSteps
    BY AreOperations DEF BusSteps, BusStep, BusContexts, Plain, PinFree
  <1>2. Leads(BusSteps, a,
              << <<"zero_ui_in">>, <<"rst_n", 0>>, <<"oe", "HIZ">>, <<"forget_start">> >>, "free")
    BY <1>1, Leads4, AreOperations DEF Plain
  <1>3. Leads(BusSteps, a, kill_dma, "free")
    BY <1>2, BusHiz, LeadsThen DEF kill_dma
  <1>4. Leads(BusSteps, "free", << <<"raise">> >>, "idle")
    BY <1>1, Leads1, AreOperations DEF Plain
  <1> QED BY <1>3, <1>4, LeadsThen

LEMMA BusRelease == Leads(BusSteps, "owned", release_bus, "free")
  <1>1. /\ <<"owned", <<"release_pins">>, "unpadded">> \in BusSteps
        /\ <<"unpadded", <<"oe", "HIZ">>, "handed">> \in BusSteps
        /\ <<"handed", <<"bus_req", 0>>, "quiet">> \in BusSteps
        /\ <<"quiet", <<"wait", "BUS_GNT low">>, "free">> \in BusSteps
    BY AreOperations DEF BusSteps, BusStep, BusContexts, Plain, PinFree, Levels
  <1>2. Leads(BusSteps, "owned", hiz, "handed")
    BY <1>1, Leads2, AreOperations DEF hiz, Plain
  <1>3. Leads(BusSteps, "handed", << <<"bus_req", 0>>, <<"wait", "BUS_GNT low">> >>, "free")
    BY <1>1, Leads2, AreOperations DEF Levels
  <1> QED BY <1>2, <1>3, LeadsThen DEF release_bus

LEMMA BusGranted ==
  ASSUME NEW dir \in {"SPI", "QPI", "READ"}, NEW body, Leads(BusSteps, "tried", body, "tried")
  PROVE  /\ Leads(BusSteps, "free", granted(dir, body), "free")
         /\ Leads(BusSteps, "idle", granted(dir, body), "free")
  <1>1. /\ \A a \in {"free", "idle"} : <<a, <<"may_request">>, "free">> \in BusSteps
        /\ <<"free", <<"bus_req", 1>>, "asked">> \in BusSteps
        /\ <<"asked", <<"wait", "BUS_GNT">>, "owned">> \in BusSteps
        /\ <<"owned", <<"drive", dir>>, "owned">> \in BusSteps
        /\ <<"owned", <<"try">>, "tried">> \in BusSteps
        /\ <<"tried", <<"finally">>, "free">> \in BusSteps
    BY AreOperations DEF BusSteps, BusStep, BusContexts, Plain, Levels
  <1>2. ASSUME NEW a \in {"free", "idle"} PROVE Leads(BusSteps, a, request_bus(dir), "owned")
    BY <1>1, Leads4, AreOperations DEF request_bus, Plain, Levels
  <1>3. /\ Leads(BusSteps, "owned", << <<"try">> >>, "tried")
        /\ Leads(BusSteps, "tried", << <<"finally">> >>, "free")
    BY <1>1, Leads1, AreOperations DEF Plain
  <1>4. ASSUME NEW a \in {"free", "idle"} PROVE Leads(BusSteps, a, granted(dir, body), "free")
    <2>1. Leads(BusSteps, a, request_bus(dir) \o << <<"try">> >>, "tried")
      BY <1>2, <1>3, LeadsThen
    <2>2. Leads(BusSteps, a, request_bus(dir) \o << <<"try">> >> \o body, "tried")
      BY <2>1, LeadsThen
    <2> QED BY <1>3, <2>2, LeadsThen DEF granted
  <1> QED BY <1>4

\* With the bus, any frames.
LEMMA BusFrames ==
  /\ \A dir \in {"HIZ", "SPI", "QPI", "READ"} : <<"tried", <<"drive", dir>>, "tried">> \in BusSteps
  /\ \A d \in Devices, cmd \in Commands :
       /\ <<"tried", <<"spi", d, cmd>>, "tried">> \in BusSteps
       /\ <<"tried", <<"qpi", d, cmd>>, "tried">> \in BusSteps
  /\ \A v \in BOOLEAN : <<"tried", <<"in_qpi", v>>, "tried">> \in BusSteps
  /\ <<"tried", <<"restore_spi_pins">>, "tried">> \in BusSteps
  <1>1. ASSUME NEW o \in Operations, o[1] \in {"drive", "restore_spi_pins", "spi", "qpi", "in_qpi"}
        PROVE  <<"tried", o, "tried">> \in BusSteps
    BY <1>1 DEF BusSteps, BusStep, BusContexts
  <1>2. \A dir \in {"HIZ", "SPI", "QPI", "READ"} :
          <<"tried", <<"drive", dir>>, "tried">> \in BusSteps
    BY <1>1, AreOperations
  <1>3. \A d \in Devices, cmd \in Commands :
          /\ <<"tried", <<"spi", d, cmd>>, "tried">> \in BusSteps
          /\ <<"tried", <<"qpi", d, cmd>>, "tried">> \in BusSteps
    BY <1>1, AreOperations
  <1>4. \A v \in BOOLEAN : <<"tried", <<"in_qpi", v>>, "tried">> \in BusSteps
    BY <1>1, AreOperations
  <1>5. <<"tried", <<"restore_spi_pins">>, "tried">> \in BusSteps
    BY <1>1, AreOperations DEF Plain
  <1> QED BY <1>2, <1>3, <1>4, <1>5

LEMMA BusBodies ==
  /\ Leads(BusSteps, "tried", bring_up_both, "tried")
  /\ Leads(BusSteps, "tried", exit_qpi_both, "tried")
  /\ Leads(BusSteps, "tried", exit_if_in_qpi, "tried")
  /\ \A d \in Devices :
       /\ Leads(BusSteps, "tried",
                << <<"drive", "QPI">>, <<"qpi", d, "WRITE">>, <<"qpi", d, "WRITE">> >>, "tried")
       /\ Leads(BusSteps, "tried",
                << <<"drive", "READ">>, <<"qpi", d, "READ">>, <<"qpi", d, "READ">> >>, "tried")
       /\ Leads(BusSteps, "tried", << <<"qpi", d, "READ">> >>, "tried")
  <1>1. ASSUME NEW d \in Devices
        PROVE  /\ Leads(BusSteps, "tried", spi_reset(d), "tried")
               /\ Leads(BusSteps, "tried", enter_qpi(d), "tried")
    <2>1. ASSUME NEW cmd \in Commands PROVE Leads(BusSteps, "tried", spi(d, cmd), "tried")
      BY BusFrames, Leads2, AreOperations DEF spi
    <2>2. Leads(BusSteps, "tried", << <<"spi", d, "RESET">> >>, "tried")
      BY BusFrames, Leads1, AreOperations DEF Commands
    <2> QED BY <2>1, <2>2, LeadsThen DEF spi_reset, enter_qpi, Commands
  <1>2. ASSUME NEW d \in Devices PROVE Leads(BusSteps, "tried", exit_qpi(d), "tried")
    BY BusFrames, Leads4, AreOperations DEF exit_qpi, Commands, Plain
  <1>3. /\ Leads(BusSteps, "tried", << <<"in_qpi", TRUE>> >>, "tried")
        /\ Leads(BusSteps, "tried", << <<"in_qpi", FALSE>> >>, "tried")
    BY BusFrames, Leads1, AreOperations
  <1>4. 0 \in Devices /\ 1 \in Devices
    BY DEF Devices
  <1>5. Leads(BusSteps, "tried", bring_up_both, "tried")
    <2>1. Leads(BusSteps, "tried", spi_reset(0) \o enter_qpi(0), "tried")
      BY <1>1, <1>4, LeadsThen
    <2>2. Leads(BusSteps, "tried", spi_reset(0) \o enter_qpi(0) \o spi_reset(1), "tried")
      BY <1>1, <1>4, <2>1, LeadsThen
    <2>3. Leads(BusSteps, "tried", spi_reset(0) \o enter_qpi(0) \o spi_reset(1) \o enter_qpi(1),
                "tried")
      BY <1>1, <1>4, <2>2, LeadsThen
    <2> QED BY <1>3, <2>3, LeadsThen DEF bring_up_both
  <1>6. Leads(BusSteps, "tried", exit_qpi_both, "tried")
    <2>1. Leads(BusSteps, "tried", exit_qpi(0) \o exit_qpi(1), "tried")
      BY <1>2, <1>4, LeadsThen
    <2> QED BY <1>3, <2>1, LeadsThen DEF exit_qpi_both
  <1>7. Leads(BusSteps, "tried", exit_if_in_qpi, "tried")
    BY <1>6, LeadsNowhere DEF exit_if_in_qpi
  <1>8. ASSUME NEW d \in Devices
        PROVE /\ Leads(BusSteps, "tried",
                << <<"drive", "QPI">>, <<"qpi", d, "WRITE">>, <<"qpi", d, "WRITE">> >>, "tried")
              /\ Leads(BusSteps, "tried",
                << <<"drive", "READ">>, <<"qpi", d, "READ">>, <<"qpi", d, "READ">> >>, "tried")
              /\ Leads(BusSteps, "tried", << <<"qpi", d, "READ">> >>, "tried")
    BY BusFrames, Leads3, Leads1, AreOperations DEF Commands
  <1> QED BY <1>5, <1>6, <1>7, <1>8

LEMMA BusInit == Leads(BusSteps, "free", init, "idle")
  <1>1. /\ <<"free", <<"new_objects">>, "free">> \in BusSteps
        /\ <<"free", <<"zero_ui_in">>, "quiet">> \in BusSteps
        /\ <<"quiet", <<"rst_n", 0>>, "quiet">> \in BusSteps
        /\ <<"quiet", <<"oe", "HIZ">>, "free">> \in BusSteps
        /\ <<"free", <<"rst_n", 1>>, "quiet">> \in BusSteps
        /\ <<"quiet", <<"expect_idle">>, "idle">> \in BusSteps
        /\ <<"idle", <<"forget_start">>, "idle">> \in BusSteps
        /\ <<"idle", <<"ready">>, "idle">> \in BusSteps
    BY AreOperations DEF BusSteps, BusStep, BusContexts, Plain, PinFree
  <1> QED BY <1>1, Leads8, AreOperations DEF init, Plain

LEMMA BusStart ==
  /\ Leads(BusSteps, "free", pulse_start, "free")
  /\ Leads(BusSteps, "free", wait_idle, "idle")
  <1>1. /\ <<"free", <<"may_start">>, "idle">> \in BusSteps
        /\ <<"idle", <<"ui_start", 1>>, "started">> \in BusSteps
        /\ <<"started", <<"poll">>, "started">> \in BusSteps
        /\ <<"started", <<"ui_start", 0>>, "quiet">> \in BusSteps
        /\ <<"quiet", <<"poll">>, "free">> \in BusSteps
        /\ <<"free", <<"record_poll">>, "free">> \in BusSteps
        /\ <<"free", <<"wait_busy">>, "idle">> \in BusSteps
    BY AreOperations DEF BusSteps, BusStep, BusContexts, Plain, PinFree
  <1>2. Leads(BusSteps, "free",
              << <<"may_start">>, <<"ui_start", 1>>, <<"poll">>,
                 <<"ui_start", 0>>, <<"poll">>, <<"record_poll">> >>, "free")
    BY <1>1, Leads6, AreOperations DEF Plain
  <1>3. Leads(BusSteps, "free", pulse_start, "free")
    BY <1>2, BusHiz, LeadsThen DEF pulse_start
  <1> QED BY <1>1, <1>3, Leads1, AreOperations DEF wait_idle, Plain

\* Every call begins and ends with the bus the chip's.
LEMMA BusCalls ==
  /\ Leads(BusSteps, "free", init, "idle")
  /\ \A force \in BOOLEAN : Leads(BusSteps, "free", bring_up_psram(force), "free")
  /\ \A d \in Devices : /\ Leads(BusSteps, "free", write_span(d), "free")
                        /\ Leads(BusSteps, "free", read_span(d), "free")
                        /\ Leads(BusSteps, "free", qpi_probe_read(d), "free")
  /\ Leads(BusSteps, "free", pulse_start, "free")
  /\ Leads(BusSteps, "free", wait_idle, "idle")
  /\ Leads(BusSteps, "free", pulse_start \o wait_idle, "idle")
  /\ Leads(BusSteps, "free", kill_dma, "free")
  /\ Leads(BusSteps, "free", recover, "free")
  /\ \A exit \in BOOLEAN : Leads(BusSteps, "free", shutdown(exit), "free")
  /\ Leads(BusSteps, "free", << <<"clear_state">> >>, "free")
  <1>1. ASSUME NEW force \in BOOLEAN PROVE Leads(BusSteps, "free", bring_up_psram(force), "free")
    <2>1. Leads(BusSteps, "tried", exit_if_in_qpi \o bring_up_both, "tried")
      BY BusBodies, LeadsThen
    <2>2. Leads(BusSteps, "free", granted("SPI", exit_if_in_qpi \o bring_up_both), "free")
      BY <2>1, BusGranted
    <2> QED BY <2>2, LeadsNowhere DEF bring_up_psram
  <1>2. ASSUME NEW d \in Devices
        PROVE  /\ Leads(BusSteps, "free", write_span(d), "free")
               /\ Leads(BusSteps, "free", read_span(d), "free")
               /\ Leads(BusSteps, "free", qpi_probe_read(d), "free")
    BY BusBodies, BusGranted DEF write_span, read_span, qpi_probe_read
  <1>3. Leads(BusSteps, "free", pulse_start \o wait_idle, "idle")
    BY BusStart, LeadsThen
  <1>4. Leads(BusSteps, "free", recover, "free")
    <2>1. /\ <<"free", <<"rst_n", 1>>, "quiet">> \in BusSteps
          /\ <<"quiet", <<"expect_idle">>, "idle">> \in BusSteps
      BY AreOperations DEF BusSteps, BusStep, BusContexts, Plain
    <2>2. Leads(BusSteps, "free", << <<"rst_n", 1>>, <<"expect_idle">> >>, "idle")
      BY <2>1, Leads2, AreOperations DEF Plain
    <2>3. Leads(BusSteps, "tried", exit_if_in_qpi \o bring_up_both, "tried")
      BY BusBodies, LeadsThen
    <2>4. Leads(BusSteps, "idle", granted("QPI", exit_if_in_qpi \o bring_up_both), "free")
      BY <2>3, BusGranted
    <2> QED BY <2>2, <2>4, LeadsThen DEF recover
  <1>5. ASSUME NEW exit \in BOOLEAN PROVE Leads(BusSteps, "free", shutdown(exit), "free")
    <2> DEFINE leaving == IF exit /\ in_qpi THEN granted("QPI", exit_qpi_both) ELSE <<>>
    <2>1. Leads(BusSteps, "free", leaving, "free")
      BY BusBodies, BusGranted, LeadsNowhere
    <2>2. Leads(BusSteps, "free", leaving \o hiz, "free")
      BY <2>1, BusHiz, LeadsThen
    <2>3. /\ <<"free", <<"zero_ui_in">>, "quiet">> \in BusSteps
          /\ <<"quiet", <<"clear_state">>, "free">> \in BusSteps
      BY AreOperations DEF BusSteps, BusStep, BusContexts, Plain, PinFree
    <2>4. Leads(BusSteps, "free", << <<"zero_ui_in">>, <<"clear_state">> >>, "free")
      BY <2>3, Leads2, AreOperations DEF Plain
    <2> HIDE DEF leaving
    <2>5. Leads(BusSteps, "free", leaving \o hiz \o << <<"zero_ui_in">>, <<"clear_state">> >>,
                "free")
      BY <2>2, <2>4, LeadsThen
    <2> QED BY <2>5 DEF shutdown, leaving
  <1>6. Leads(BusSteps, "free", << <<"clear_state">> >>, "free")
    <2>1. <<"free", <<"clear_state">>, "free">> \in BusSteps
      BY AreOperations DEF BusSteps, BusStep, BusContexts, Plain, PinFree
    <2> QED BY <2>1, Leads1, AreOperations DEF Plain
  <1> QED BY <1>1, <1>2, <1>3, <1>4, <1>5, <1>6, BusInit, BusStart, BusKill

-------------------------------------------------------------------------------
(***************************************************************************)
(* What the chip has sampled.                                              *)
(***************************************************************************)
\* A call is begun in one way.
LEMMA CallBegins ==
  ASSUME Call PROVE \E name, program : name # NONE /\ Begin(name, program)
  <1>1. CASE Begin("init", init)
    BY <1>1 DEF NONE
  <1>2. ASSUME NEW force \in BOOLEAN, Begin("bring_up_psram", bring_up_psram(force))
        PROVE  \E name, program : name # NONE /\ Begin(name, program)
    BY <1>2 DEF NONE
  <1>3. ASSUME NEW d \in Devices,
               \/ Begin("write_span", write_span(d))
               \/ Begin("read_span", read_span(d))
               \/ Begin("qpi_probe_read", qpi_probe_read(d))
        PROVE  \E name, program : name # NONE /\ Begin(name, program)
    BY <1>3 DEF NONE
  <1>4. ASSUME NEW exit \in BOOLEAN, Begin("shutdown", shutdown(exit))
        PROVE  \E name, program : name # NONE /\ Begin(name, program)
    BY <1>4 DEF NONE
  <1>5. CASE \/ Begin("pulse_start", pulse_start)
             \/ Begin("wait_idle", wait_idle)
             \/ Begin("start_and_wait", pulse_start \o wait_idle)
             \/ Begin("reset_dma", kill_dma)
             \/ Begin("recover", recover)
             \/ Begin("clear_state", << <<"clear_state">> >>)
    BY <1>5 DEF NONE
  <1> QED BY <1>1, <1>2, <1>3, <1>4, <1>5 DEF Call

LEMMA SampledInit == Init => SampledInv
  BY DEF Init, SampledInv, Chip!Init

LEMMA SampledNext == SampledInv /\ [Next]_vars => SampledInv'
  <1> SUFFICES ASSUME SampledInv, [Next]_vars PROVE SampledInv'
    OBVIOUS
  <1>1. CASE Clk
    <2>1. seen' /\ call' = call /\ todo' = todo /\ rst_n' = rst_n /\ ui_start' = ui_start
      BY <1>1 DEF Clk, pins
    <2>2. /\ rst_n = 0 => done' = 1 /\ bus_gnt' = 0
          /\ done' \in {0, 1}
      BY <1>1 DEF SampledInv, Clk, Chip!port, Chip!Next, Chip!Reset, Chip!Grant, Chip!Transfer,
             Chip!Return, Chip!Start, Chip!StayIdle, Chip!Run, Chip!Free
    <2> QED BY <1>1, <2>1, <2>2 DEF Clk, SampledInv
  <1>2. CASE Call
    <2>1. PICK name, program : name # NONE /\ Begin(name, program)
      BY <1>2, CallBegins
    <2>2. UNCHANGED <<rst_n, ui_start, start_d, done, bus_gnt, seen>> /\ call' # NONE
      BY <2>1 DEF Begin, pins, chip
    <2> QED BY <2>2 DEF SampledInv
  <1>3. CASE SetPin
    <2>1. UNCHANGED <<call, done>> /\ call # NONE /\ seen' = FALSE
      BY <1>3 DEF SetPin, Operation, SampledInv, chip
    <2> QED BY <2>1 DEF SampledInv
  <1>4. CASE SetDrive \/ Frame \/ Guard \/ Wait \/ Poll \/ WaitBusy \/ Bookkeeping \/ TryFinally
    <2>1. UNCHANGED <<pins, chip, call, seen>> /\ call # NONE
      BY <1>4 DEF SetDrive, Frame, Guard, Wait, Poll, WaitBusy, Bookkeeping, TryFinally, Same,
             Operation, SampledInv
    <2> QED BY <2>1 DEF SampledInv, pins, chip
  <1>5. CASE Return
    BY <1>5 DEF Return, SampledInv, pins, chip
  <1>6. CASE Interrupt
    BY <1>6 DEF Interrupt, SampledInv, pins, chip
  <1>7. CASE UNCHANGED vars
    BY <1>7 DEF vars, pins, chip, progress, SampledInv
  <1> QED BY <1>1, <1>2, <1>3, <1>4, <1>5, <1>6, <1>7 DEF Next, Execute

-------------------------------------------------------------------------------
(***************************************************************************)
(* The bus, step by step.                                                  *)
(***************************************************************************)

\* Where a call stands when it carries out its next operation.
LEMMA BusAt ==
  ASSUME SampledInv, BusInv, ~cut, todo # <<>>
  PROVE  \E a \in BusContexts, b \in BusContexts, e \in BusEnd :
           /\ BusFact(a) /\ BusStep(a, op, b) /\ Leads(BusSteps, b, Tail(todo), e)
           /\ in_try => a = "tried"
  <1>1. PICK a \in BusContexts, e \in BusEnd :
          /\ BusFact(a) /\ Leads(BusSteps, a, todo, e)
          /\ call # NONE /\ in_try => a = "tried"
    BY DEF BusInv
  <1>2. PICK b : <<a, op, b>> \in BusSteps /\ Leads(BusSteps, b, Tail(todo), e)
    BY <1>1, LeadsOn DEF op
  <1>3. b \in BusContexts /\ BusStep(a, op, b)
    BY <1>2 DEF BusSteps
  <1>4. call # NONE
    BY DEF SampledInv
  <1> QED BY <1>1, <1>2, <1>3, <1>4

\* A call goes on from context b.
LEMMA BusOn ==
  ASSUME ~cut => \E b \in BusContexts, e \in BusEnd' :
           BusFact(b)' /\ Leads(BusSteps, b, todo', e) /\ (in_try' => b = "tried"),
         cut' = cut
  PROVE  BusInv'
  BY DEF BusInv

LEMMA BusEndKept ==
  ASSUME UNCHANGED <<call, failed, last>> PROVE BusEnd' = BusEnd
  BY DEF BusEnd, Reports

LEMMA BusSetPin ==
  ASSUME SampledInv, BusInv, SetPin PROVE BusInv'
  <1>1. /\ todo # <<>> /\ seen /\ todo' = Tail(todo) /\ seen' = FALSE
        /\ UNCHANGED <<oe, pads, bus_gnt, done, start_d, cut, call, failed, last, in_try>>
    BY DEF SetPin, Operation, Done, drive, chip
  <1>2. ASSUME NEW a \in BusContexts, NEW b \in BusContexts, BusFact(a), BusStep(a, op, b),
               in_try => a = "tried"
        PROVE  BusFact(b)' /\ (in_try' => b = "tried")
    <2>1. CASE op[1] = "ui_start" /\ ui_start' = op[2] /\ UNCHANGED <<bus_req, rst_n>>
      <3>1. \/ a = "idle" /\ b = "started" /\ ui_start' = 1
            \/ a = "started" /\ b = "quiet" /\ ui_start' = 0
        BY <1>2, <2>1 DEF BusStep, PinFree
      <3> QED BY <1>1, <1>2, <2>1, <3>1 DEF BusFact, Quiet, released, SampledInv
    <2>2. CASE op[1] = "bus_req" /\ bus_req' = op[2] /\ UNCHANGED <<ui_start, rst_n>>
      <3>1. \/ a = "free" /\ b = "asked" /\ bus_req' = 1
            \/ a = "handed" /\ b = "quiet" /\ bus_req' = 0
        BY <1>2, <2>2 DEF BusStep, PinFree
      <3> QED BY <1>1, <1>2, <2>2, <3>1 DEF BusFact, Quiet, Owned, released
    <2>3. CASE op[1] = "zero_ui_in" /\ ui_start' = 0 /\ bus_req' = 0 /\ UNCHANGED rst_n
      <3>1. a \in {"free", "quiet", "asked"} /\ b = "quiet"
        BY <1>2, <2>3 DEF BusStep, PinFree
      <3> QED BY <1>1, <1>2, <2>3, <3>1 DEF BusFact, Quiet, released
    <2>4. CASE op[1] = "rst_n" /\ rst_n' = op[2] /\ UNCHANGED <<ui_start, bus_req>>
      <3>1. a \in {"free", "quiet"} /\ b = "quiet"
        BY <1>2, <2>4 DEF BusStep, PinFree
      <3> QED BY <1>1, <1>2, <2>4, <3>1 DEF BusFact, Quiet, released
    <2> QED BY <2>1, <2>2, <2>3, <2>4 DEF SetPin, Operation
  <1> QED BY <1>1, <1>2, BusAt, BusOn, BusEndKept

LEMMA BusSetDrive ==
  ASSUME SampledInv, BusInv, SetDrive PROVE BusInv'
  <1>1. /\ todo # <<>> /\ seen
        /\ UNCHANGED <<rst_n, ui_start, bus_req, bus_gnt, done, start_d, seen, cut, call, last>>
    BY DEF SetDrive, Operation, Same, pins, chip
  <1>2. ASSUME NEW a \in BusContexts, NEW b \in BusContexts, BusFact(a), BusStep(a, op, b),
               in_try => a = "tried"
        PROVE  Done /\ BusFact(b)' /\ (in_try => b = "tried")
    <2>1. CASE op[1] = "oe" /\ oe' = op[2] /\ pads' = pads /\ Done
      <3>1. \/ a \in {"free", "idle", "started", "asked"} /\ b = a /\ oe' = "HIZ"
            \/ a = "quiet" /\ b = "free" /\ oe' = "HIZ"
            \/ a = "unpadded" /\ b = "handed" /\ oe' = "HIZ"
        BY <1>2, <2>1 DEF BusStep, PinFree
      <3> QED BY <1>1, <1>2, <2>1, <3>1 DEF BusFact, Quiet, Owned, released
    <2>2. CASE op[1] = "drive" /\ pads' = pads /\ Check(drive_legal)
      <3>1. a \in {"owned", "tried"} /\ b = a
        BY <1>2, <2>2 DEF BusStep, PinFree
      <3>2. Done
        BY <1>2, <2>2, <3>1 DEF BusFact, Owned, Check, drive_legal
      <3> QED BY <1>1, <1>2, <2>2, <3>1, <3>2 DEF BusFact, Owned
    <2>3. CASE op[1] = "release_pins" /\ pads' = NONE /\ oe' = oe /\ Done
      <3>1. \/ a \in {"free", "idle", "started", "asked"} /\ b = a
            \/ a = "quiet" /\ b = "free"
            \/ a = "owned" /\ b = "unpadded"
        BY <1>2, <2>3 DEF BusStep, PinFree
      <3> QED BY <1>1, <1>2, <2>3, <3>1 DEF BusFact, Quiet, Owned, released
    <2>4. CASE op[1] = "restore_spi_pins" /\ pads' = "SPI" /\ oe' = oe /\ Done
      <3>1. a \in {"owned", "tried"} /\ b = a
        BY <1>2, <2>4 DEF BusStep, PinFree
      <3> QED BY <1>1, <1>2, <2>4, <3>1 DEF BusFact, Owned
    <2> QED BY <2>1, <2>2, <2>3, <2>4 DEF SetDrive, Operation
  <1> QED BY <1>1, <1>2, BusAt, BusOn, BusEndKept DEF Done

LEMMA BusFrame ==
  ASSUME SampledInv, BusInv, Frame PROVE BusInv'
  <1>1. /\ todo # <<>> /\ seen /\ todo' = Tail(todo) /\ op[1] \in {"spi", "qpi"}
        /\ UNCHANGED <<rst_n, ui_start, bus_req, bus_gnt, done, start_d, seen, cut, call, last,
                       failed, in_try>>
    BY DEF Frame, Operation, Same, Done, pins, chip
  <1>2. ASSUME NEW a \in BusContexts, NEW b \in BusContexts, BusFact(a), BusStep(a, op, b),
               in_try => a = "tried"
        PROVE  BusFact(b)' /\ (in_try' => b = "tried")
    <2>1. a \in {"owned", "tried"} /\ b = a
      BY <1>1, <1>2 DEF BusStep, PinFree
    <2> QED BY <1>1, <1>2, <2>1 DEF BusFact, Owned
  <1> QED BY <1>1, <1>2, BusAt, BusOn, BusEndKept

\* A call that raises outside its try ends with the bus the chip's.
LEMMA BusRaise ==
  ASSUME Raise, ~in_try, call # NONE, BusFact("free")', UNCHANGED <<call, cut>>
  PROVE  BusInv'
  <1>1. todo' = <<>> /\ failed' = TRUE /\ ~in_try'
    BY DEF Raise
  <1>2. "free" \in BusEnd'
    BY <1>1 DEF BusEnd, Reports
  <1>3. Leads(BusSteps, "free", todo', "free")
    BY <1>1, LeadsNowhere
  <1> QED BY <1>1, <1>2, <1>3, BusOn DEF BusContexts

LEMMA BusGuard ==
  ASSUME SampledInv, BusInv, Guard PROVE BusInv'
  <1>1. /\ todo # <<>> /\ seen /\ call # NONE
        /\ UNCHANGED <<rst_n, ui_start, bus_req, bus_gnt, done, start_d, oe, pads, seen, cut,
                       call, last>>
    BY DEF Guard, Operation, Same, pins, chip, drive, SampledInv
  <1>2. ASSUME NEW a \in BusContexts, NEW b \in BusContexts, NEW e \in BusEnd,
               BusFact(a), BusStep(a, op, b), Leads(BusSteps, b, Tail(todo), e),
               in_try => a = "tried"
        PROVE  BusInv'
    <2>1. op[1] \in {"may_request", "may_start", "expect_idle", "raise"}
      BY DEF Guard, Operation
    <2>2. \/ op[1] = "may_request" /\ a \in {"free", "idle"} /\ b = "free"
          \/ op[1] = "expect_idle" /\ a = "quiet" /\ b = "idle"
          \/ op[1] = "may_start" /\ a = "free" /\ b = "idle"
          \/ op[1] = "raise" /\ a = "free" /\ b = "idle"
      BY <1>2, <2>1 DEF BusStep, PinFree
    <2>3. ~in_try /\ BusFact("free")
      BY <1>1, <1>2, <2>2 DEF BusFact, Quiet
    <2>4. BusFact("free")'
      BY <1>1, <2>3 DEF BusFact, Quiet, released
    <2>5. CASE Raise
      BY <1>1, <2>3, <2>4, <2>5, BusRaise
    <2>6. CASE Done /\ op[1] # "raise" /\ ((op[1] # "may_request") => done = 1)
      <3>1. BusFact(b)'
        BY <1>1, <2>2, <2>3, <2>4, <2>6 DEF BusFact, Quiet, released
      <3>2. todo' = Tail(todo) /\ ~in_try' /\ BusEnd' = BusEnd
        BY <1>1, <2>3, <2>6, BusEndKept DEF Done
      <3> QED BY <1>1, <1>2, <3>1, <3>2, BusOn
    <2> QED BY <2>5, <2>6 DEF Guard, Operation, Check, start_legal, port_idle
  <1>3. CASE cut
    BY <1>1, <1>3, BusOn
  <1> QED BY <1>1, <1>2, <1>3, BusAt

LEMMA BusWait ==
  ASSUME SampledInv, BusInv, Wait PROVE BusInv'
  <1>1. /\ todo # <<>> /\ seen /\ call # NONE /\ op[1] = "wait"
        /\ UNCHANGED <<rst_n, ui_start, bus_req, bus_gnt, done, start_d, oe, pads, seen, cut,
                       call, last, failed, in_try>>
    BY DEF Wait, Operation, Same, Done, pins, chip, drive, SampledInv
  <1>2. ASSUME NEW a \in BusContexts, NEW b \in BusContexts, NEW e \in BusEnd,
               BusFact(a), BusStep(a, op, b), Leads(BusSteps, b, Tail(todo), e),
               in_try => a = "tried"
        PROVE  \E c \in BusContexts, g \in BusEnd' :
                 BusFact(c)' /\ Leads(BusSteps, c, todo', g) /\ (in_try' => c = "tried")
    <2>1. \/ op[2] = "BUS_GNT" /\ a = "asked" /\ b = "owned"
          \/ op[2] = "BUS_GNT low" /\ a = "quiet" /\ b = "free"
          \/ op[2] = "DONE" /\ a = "free" /\ b = "idle"
      BY <1>1, <1>2 DEF BusStep, PinFree
    <2>2. BusEnd' = BusEnd /\ ~in_try
      BY <1>1, <1>2, <2>1, BusEndKept
    <2>3. /\ holds["BUS_GNT"] <=> bus_gnt = 1
          /\ holds["BUS_GNT low"] <=> bus_gnt = 0
          /\ holds["DONE"] <=> done = 1
      BY DEF holds
    <2>4. CASE holds[op[2]] /\ Done
      <3>1. BusFact(b)'
        BY <1>1, <1>2, <2>1, <2>3, <2>4 DEF BusFact, Quiet, Owned, released, SampledInv
      <3> QED BY <1>1, <1>2, <2>2, <2>4, <3>1 DEF Done
    <2>5. CASE timed_out(op[2]) /\ todo' = kill_dma \o << <<"raise">> >>
      <3>1. a \in {"free", "asked"}
        BY <1>1, <1>2, <2>1, <2>3, <2>5 DEF BusFact, timed_out
      <3>2. Leads(BusSteps, a, todo', "idle")
        BY <2>5, <3>1, BusKill
      <3>3. BusFact(a)'
        BY <1>1, <1>2, <3>1 DEF BusFact, Quiet, released
      <3>4. "idle" \in BusEnd'
        BY DEF BusEnd
      <3> QED BY <1>1, <2>2, <3>1, <3>2, <3>3, <3>4
    <2> QED BY <2>4, <2>5 DEF Wait
  <1> QED BY <1>1, <1>2, BusAt, BusOn

LEMMA BusPoll ==
  ASSUME SampledInv, BusInv, Poll \/ Bookkeeping PROVE BusInv'
  <1>1. /\ todo # <<>> /\ seen /\ todo' = Tail(todo)
        /\ op[1] \in {"poll", "record_poll", "forget_start", "new_objects", "in_qpi", "ready",
                      "clear_state"}
        /\ UNCHANGED <<rst_n, ui_start, bus_req, bus_gnt, done, start_d, oe, pads, seen, cut,
                       call, last, failed, in_try>>
    BY DEF Poll, Bookkeeping, Operation, Same, Done, pins, chip, drive
  <1>2. ASSUME NEW a \in BusContexts, NEW b \in BusContexts, BusFact(a), BusStep(a, op, b),
               in_try => a = "tried"
        PROVE  BusFact(b)' /\ (in_try' => b = "tried")
    <2>1. b = a \/ (a = "quiet" /\ b = "free")
      BY <1>1, <1>2 DEF BusStep, PinFree
    <2> QED BY <1>1, <1>2, <2>1 DEF BusFact, Quiet, Owned, released
  <1> QED BY <1>1, <1>2, BusAt, BusOn, BusEndKept

LEMMA BusWaitBusy ==
  ASSUME SampledInv, BusInv, WaitBusy PROVE BusInv'
  <1>1. /\ todo # <<>> /\ seen /\ todo' = after_ack(saw_busy') \o Tail(todo)
        /\ saw_busy' = (saw_busy \/ done = 0) /\ op[1] = "wait_busy"
        /\ UNCHANGED <<rst_n, ui_start, bus_req, bus_gnt, done, start_d, oe, pads, seen, cut,
                       call, last, failed, in_try>>
    BY DEF WaitBusy, Operation, Same, pins, chip, drive
  <1>2. ASSUME NEW a \in BusContexts, NEW b \in BusContexts, NEW e \in BusEnd,
               BusFact(a), BusStep(a, op, b), Leads(BusSteps, b, Tail(todo), e),
               in_try => a = "tried"
        PROVE  \E c \in BusContexts : /\ BusFact(c)' /\ Leads(BusSteps, c, todo', e)
                                      /\ in_try' => c = "tried"
    <2>1. a = "free" /\ b = "idle"
      BY <1>1, <1>2 DEF BusStep, PinFree
    <2>2. BusFact("free")' /\ ~in_try'
      BY <1>1, <1>2, <2>1 DEF BusFact, Quiet, released
    <2>3. CASE saw_busy'
      <3>1. /\ <<"free", <<"wait", "DONE">>, "idle">> \in BusSteps
            /\ <<"idle", <<"forget_start">>, "idle">> \in BusSteps
        BY AreOperations DEF BusSteps, BusStep, BusContexts, Plain, PinFree, Levels
      <3>2. Leads(BusSteps, "free", after_ack(saw_busy'), "idle")
        BY <2>3, <3>1, Leads2, AreOperations DEF Plain, Levels, after_ack
      <3> QED BY <1>1, <1>2, <2>1, <2>2, <3>2, LeadsThen DEF BusContexts
    <2>4. CASE ~saw_busy'
      <3>1. BusFact("idle")'
        BY <1>1, <1>2, <2>1, <2>2, <2>4 DEF BusFact, Quiet, SampledInv
      <3>2. Leads(BusSteps, "idle", after_ack(saw_busy'), "idle")
        BY <2>4, LeadsNowhere DEF after_ack
      <3> QED BY <1>1, <1>2, <2>1, <2>2, <3>1, <3>2, LeadsThen DEF BusContexts
    <2> QED BY <2>3, <2>4
  <1> QED BY <1>1, <1>2, BusAt, BusOn, BusEndKept

LEMMA BusTryFinally ==
  ASSUME SampledInv, BusInv, TryFinally PROVE BusInv'
  <1>1. /\ todo # <<>> /\ seen
        /\ UNCHANGED <<rst_n, ui_start, bus_req, bus_gnt, done, start_d, oe, pads, seen, cut,
                       call, last, failed>>
    BY DEF TryFinally, Operation, Same, pins, chip, drive
  <1>2. ASSUME NEW a \in BusContexts, NEW b \in BusContexts, NEW e \in BusEnd,
               BusFact(a), BusStep(a, op, b), Leads(BusSteps, b, Tail(todo), e),
               in_try => a = "tried"
        PROVE  \E c \in BusContexts : /\ BusFact(c)' /\ Leads(BusSteps, c, todo', e)
                                      /\ in_try' => c = "tried"
    <2>1. CASE op[1] = "try" /\ in_try' = TRUE /\ todo' = Tail(todo)
      <3>1. a = "owned" /\ b = "tried"
        BY <1>2, <2>1 DEF BusStep, PinFree
      <3> QED BY <1>1, <1>2, <2>1, <3>1 DEF BusFact, Owned
    <2>2. CASE op[1] = "finally" /\ in_try' = FALSE /\ todo' = release_bus \o Tail(todo)
      <3>1. a = "tried" /\ b = "free"
        BY <1>2, <2>2 DEF BusStep, PinFree
      <3>2. BusFact("owned")'
        BY <1>1, <1>2, <3>1 DEF BusFact, Owned
      <3>3. Leads(BusSteps, "owned", todo', e)
        BY <1>2, <2>2, <3>1, BusRelease, LeadsThen
      <3> QED BY <2>2, <3>2, <3>3 DEF BusContexts
    <2> QED BY <2>1, <2>2 DEF TryFinally, Operation
  <1> QED BY <1>1, <1>2, BusAt, BusOn, BusEndKept

\* The chip's side of every context.
LEMMA BusClk ==
  ASSUME SampledInv, BusInv, Clk PROVE BusInv'
  <1>1. /\ seen' /\ UNCHANGED <<rst_n, ui_start, bus_req, oe, pads, cut, call, todo, last, failed,
                                in_try>>
        /\ start_d' = IF rst_n = 0 THEN 0 ELSE ui_start
        /\ Chip!Next
    BY DEF Clk, pins, drive
  <1>2. /\ bus_req = 0 => bus_gnt' = 0
        /\ bus_req = 1 /\ bus_gnt = 1 /\ rst_n # 0 => bus_gnt' = 1
        /\ done = 1 /\ bus_gnt = 0 /\ bus_req = 0 /\ start # 1 => done' = 1
    BY <1>1 DEF Chip!Next, Chip!Reset, Chip!Grant, Chip!Transfer, Chip!Return, Chip!Start,
           Chip!StayIdle, Chip!Run, Chip!Free, Chip!port
  <1>3. ASSUME NEW a \in BusContexts, BusFact(a) PROVE BusFact(a)'
    BY <1>1, <1>2, <1>3 DEF BusFact, Quiet, Owned, released, start, BusContexts
  <1> QED BY <1>1, <1>3, BusEndKept DEF BusInv

LEMMA BusReturn ==
  ASSUME SampledInv, BusInv, UpInv, LowInv, Return PROVE BusInv'
  <1>1. /\ call # NONE /\ todo = <<>> /\ todo' = <<>> /\ call' = NONE /\ last' = <<call, ~failed>>
        /\ cut' = (cut /\ ~Recovered)
        /\ UNCHANGED <<rst_n, ui_start, bus_req, bus_gnt, done, start_d, oe, pads, seen>>
    BY DEF Return, pins, chip, drive
  <1>2. CASE ~cut
    <2>1. PICK a \in BusContexts, e \in BusEnd : BusFact(a) /\ a = e
      BY <1>1, <1>2, LeadsNowhere DEF BusInv
    <2>2. BusFact(a)'
      BY <1>1, <2>1 DEF BusFact, BusEnd, Quiet, released
    <2>3. \A name \in {"wait_idle", "start_and_wait"} : Reports(name)' => Reports(name)
      BY <1>1 DEF Reports, NONE
    <2>4. a \in BusEnd'
      BY <2>1, <2>3 DEF BusEnd
    <2>5. Leads(BusSteps, a, todo', a)
      BY <1>1, LeadsNowhere
    <2> QED BY <1>1, <2>2, <2>4, <2>5 DEF BusInv
  <1>3. CASE cut /\ Recovered
    <2>1. call = "recover" /\ ~failed /\ last = <<"reset_dma", TRUE>>
      BY <1>3 DEF Recovered
    <2>2. UpFact("usable")
      BY <1>1, <2>1, LeadsNowhere DEF UpInv, Reports
    <2>3. BusFact("free")'
      BY <1>1, <2>1, <2>2 DEF UpFact, LowInv, BusFact, Quiet, released
    <2>4. "free" \in BusEnd'
      BY <1>1, <2>1 DEF BusEnd, Reports, NONE
    <2>5. Leads(BusSteps, "free", todo', "free")
      BY <1>1, LeadsNowhere
    <2> QED BY <1>1, <2>3, <2>4, <2>5 DEF BusInv, BusContexts
  <1> QED BY <1>1, <1>2, <1>3 DEF BusInv

LEMMA BusBegin ==
  ASSUME NEW name, NEW program, SampledInv, BusInv, Begin(name, program), name # NONE,
         \/ Leads(BusSteps, "free", program, "idle")
         \/ /\ Leads(BusSteps, "free", program, "free")
            /\ name \notin {"wait_idle", "start_and_wait"}
  PROVE  BusInv'
  <1>1. /\ call = NONE /\ call' = name /\ todo' = program /\ ~in_try' /\ ~failed' /\ todo = <<>>
        /\ UNCHANGED <<rst_n, ui_start, bus_req, bus_gnt, done, start_d, oe, pads, seen, cut>>
    BY DEF Begin, pins, chip, drive, SampledInv
  <1>2. CASE ~cut
    <2>1. PICK a \in BusContexts, g \in BusEnd : BusFact(a) /\ a = g
      BY <1>1, <1>2, LeadsNowhere DEF BusInv
    <2>2. BusFact("free")'
      BY <1>1, <2>1 DEF BusFact, BusEnd, Quiet, released
    <2>3. \E e \in BusEnd' : Leads(BusSteps, "free", todo', e)
      BY <1>1 DEF BusEnd, Reports
    <2> QED BY <1>1, <2>2, <2>3, BusOn DEF BusContexts
  <1> QED BY <1>1, <1>2, BusOn

LEMMA BusCall ==
  ASSUME SampledInv, BusInv, Call PROVE BusInv'
  <1>1. CASE Begin("init", init)
    BY <1>1, BusBegin, BusCalls DEF NONE
  <1>2. ASSUME NEW force \in BOOLEAN, Begin("bring_up_psram", bring_up_psram(force)) PROVE BusInv'
    BY <1>2, BusBegin, BusCalls DEF NONE
  <1>3. ASSUME NEW d \in Devices,
               \/ Begin("write_span", write_span(d))
               \/ Begin("read_span", read_span(d))
               \/ Begin("qpi_probe_read", qpi_probe_read(d))
        PROVE  BusInv'
    BY <1>3, BusBegin, BusCalls DEF NONE
  <1>4. CASE Begin("pulse_start", pulse_start)
    BY <1>4, BusBegin, BusCalls DEF NONE
  <1>5. CASE Begin("wait_idle", wait_idle)
    BY <1>5, BusBegin, BusCalls DEF NONE
  <1>6. CASE Begin("start_and_wait", pulse_start \o wait_idle)
    BY <1>6, BusBegin, BusCalls DEF NONE
  <1>7. CASE Begin("reset_dma", kill_dma)
    BY <1>7, BusBegin, BusCalls DEF NONE
  <1>8. CASE Begin("recover", recover)
    BY <1>8, BusBegin, BusCalls DEF NONE
  <1>9. ASSUME NEW exit \in BOOLEAN, Begin("shutdown", shutdown(exit)) PROVE BusInv'
    BY <1>9, BusBegin, BusCalls DEF NONE
  <1>10. CASE Begin("clear_state", << <<"clear_state">> >>)
    BY <1>10, BusBegin, BusCalls DEF NONE
  <1> QED BY <1>1, <1>2, <1>3, <1>4, <1>5, <1>6, <1>7, <1>8, <1>9, <1>10 DEF Call

LEMMA BusNext ==
  ASSUME SampledInv, BusInv, UpInv, LowInv, [Next]_vars PROVE BusInv'
  <1>1. CASE Interrupt
    BY <1>1 DEF Interrupt, BusInv
  <1>2. CASE UNCHANGED vars
    <2>1. UNCHANGED <<rst_n, ui_start, bus_req, bus_gnt, done, start_d, oe, pads, seen, cut, call,
                      todo, last, failed, in_try>>
      BY <1>2 DEF vars, pins, chip, drive, progress
    <2>2. \A a : BusFact(a)' <=> BusFact(a)
      BY <2>1 DEF BusFact, Quiet, Owned, released
    <2> QED BY <2>1, <2>2, BusEndKept DEF BusInv
  <1> QED BY <1>1, <1>2, BusSetPin, BusSetDrive, BusFrame, BusGuard, BusWait, BusPoll, BusWaitBusy,
             BusTryFinally, BusClk, BusReturn, BusCall DEF Next, Execute

-------------------------------------------------------------------------------
(***************************************************************************)
(* Lists whose operations all leave the context alone.                     *)
(***************************************************************************)
LEMMA LeadsStay ==
  ASSUME NEW Steps, NEW a, NEW S, NEW s \in Seq(S), S \subseteq Operations,
         \A o \in S : <<a, o, a>> \in Steps
  PROVE  Leads(Steps, a, s, a)
  <1>1. s \in Seq(Operations) /\ Len(s) \in Nat /\ \A i \in 1 .. Len(s) : s[i] \in S
    BY SeqMonotonic, LenProperties, ElementOfSeq
  <1> DEFINE path == [i \in 0 .. Len(s) |-> a]
  <1>2. path[0] = a /\ path[Len(s)] = a
    BY <1>1
  <1>3. \A i \in 1 .. Len(s) : path[i - 1] = a /\ path[i] = a
    BY <1>1
  <1> HIDE DEF path
  <1>4. \A i \in 1 .. Len(s) : <<path[i - 1], s[i], path[i]>> \in Steps
    BY <1>1, <1>3
  <1> QED BY <1>1, <1>2, <1>4 DEF Leads

\* Tame operations set no pin high and say nothing of modes; calm ones say nothing of modes.
Calm == {o \in Operations : o[1] # "in_qpi" /\ ~Exits(o)}
Tame == {o \in Calm : o[1] \in {"ui_start", "rst_n"} => o[2] = 0}

LEMMA TameOperations ==
  /\ \A name \in Plain : <<name>> \in Tame
  /\ \A v \in {0, 1} : <<"bus_req", v>> \in Tame
  /\ <<"ui_start", 0>> \in Tame /\ <<"rst_n", 0>> \in Tame
  /\ \A dir \in {"HIZ", "SPI", "QPI", "READ"} : <<"oe", dir>> \in Tame /\ <<"drive", dir>> \in Tame
  /\ \A level \in Levels : <<"wait", level>> \in Tame
  /\ \A d \in Devices, cmd \in Commands :
       <<"spi", d, cmd>> \in Tame /\ (cmd # "EXIT_QPI" => <<"qpi", d, cmd>> \in Tame)
  /\ <<"ui_start", 1>> \in Calm /\ <<"rst_n", 1>> \in Calm
  /\ Tame \subseteq Calm /\ Calm \subseteq Operations
  <1>1. \A name \in Plain : <<name>> \in Tame
    BY AreOperations DEF Tame, Calm, Exits, Plain
  <1>2. /\ \A v \in {0, 1} : <<"bus_req", v>> \in Tame
        /\ <<"ui_start", 0>> \in Tame /\ <<"rst_n", 0>> \in Tame
        /\ <<"ui_start", 1>> \in Calm /\ <<"rst_n", 1>> \in Calm
    BY AreOperations DEF Tame, Calm, Exits
  <1>3. \A dir \in {"HIZ", "SPI", "QPI", "READ"} :
          <<"oe", dir>> \in Tame /\ <<"drive", dir>> \in Tame
    BY AreOperations DEF Tame, Calm, Exits
  <1>4. \A level \in Levels : <<"wait", level>> \in Tame
    BY AreOperations DEF Tame, Calm, Exits
  <1>5. \A d \in Devices, cmd \in Commands :
          <<"spi", d, cmd>> \in Tame /\ (cmd # "EXIT_QPI" => <<"qpi", d, cmd>> \in Tame)
    BY AreOperations DEF Tame, Calm, Exits
  <1>6. Tame \subseteq Calm /\ Calm \subseteq Operations
    BY DEF Tame, Calm
  <1> QED BY <1>1, <1>2, <1>3, <1>4, <1>5, <1>6

LEMMA TamePrograms ==
  /\ hiz \in Seq(Tame) /\ kill_dma \in Seq(Tame) /\ kill_dma \o << <<"raise">> >> \in Seq(Tame)
  /\ release_bus \in Seq(Tame) /\ wait_idle \in Seq(Tame)
  /\ \A busy \in BOOLEAN : after_ack(busy) \in Seq(Tame)
  /\ \A dir \in {"SPI", "QPI", "READ"} : request_bus(dir) \in Seq(Tame)
  /\ << <<"try">> >> \in Seq(Tame) /\ << <<"finally">> >> \in Seq(Tame)
  /\ \A d \in Devices : spi_reset(d) \in Seq(Tame)
  <1>1. /\ hiz \in Seq(Tame) /\ wait_idle \in Seq(Tame)
        /\ << <<"try">> >> \in Seq(Tame) /\ << <<"finally">> >> \in Seq(Tame)
        /\ << <<"raise">> >> \in Seq(Tame)
    BY TameOperations DEF hiz, wait_idle, Plain
  <1>2. << <<"zero_ui_in">>, <<"rst_n", 0>>, <<"oe", "HIZ">>, <<"forget_start">> >> \in Seq(Tame)
    BY TameOperations DEF Plain
  <1>3. kill_dma \in Seq(Tame) /\ kill_dma \o << <<"raise">> >> \in Seq(Tame)
    BY <1>1, <1>2, ConcatProperties DEF kill_dma
  <1>4. << <<"bus_req", 0>>, <<"wait", "BUS_GNT low">> >> \in Seq(Tame)
    <2>1. <<"bus_req", 0>> \in Tame /\ <<"wait", "BUS_GNT low">> \in Tame
      BY TameOperations DEF Levels
    <2>2. \A x, y \in Tame : <<x, y>> \in Seq(Tame)
      OBVIOUS
    <2> QED BY <2>1, <2>2
  <1>5. release_bus \in Seq(Tame)
    BY <1>1, <1>4, ConcatProperties DEF release_bus
  <1>6. ASSUME NEW busy \in BOOLEAN PROVE after_ack(busy) \in Seq(Tame)
    <2>1. <<"wait", "DONE">> \in Tame /\ <<"forget_start">> \in Tame
      BY TameOperations DEF Levels, Plain
    <2>2. << <<"wait", "DONE">>, <<"forget_start">> >> \in Seq(Tame) /\ <<>> \in Seq(Tame)
      BY <2>1
    <2> QED BY <2>2 DEF after_ack
  <1>7. ASSUME NEW dir \in {"SPI", "QPI", "READ"} PROVE request_bus(dir) \in Seq(Tame)
    <2>1. /\ <<"may_request">> \in Tame /\ <<"bus_req", 1>> \in Tame
          /\ <<"wait", "BUS_GNT">> \in Tame /\ <<"drive", dir>> \in Tame
      BY TameOperations DEF Plain, Levels
    <2> QED BY <2>1 DEF request_bus
  <1>8. ASSUME NEW d \in Devices PROVE spi_reset(d) \in Seq(Tame)
    <2>1. /\ <<"drive", "SPI">> \in Tame /\ <<"spi", d, "RESET">> \in Tame
          /\ <<"spi", d, "RESET_ENABLE">> \in Tame
      BY TameOperations DEF Commands
    <2>2. << <<"drive", "SPI">>, <<"spi", d, "RESET_ENABLE">> >> \in Seq(Tame)
          /\ << <<"spi", d, "RESET">> >> \in Seq(Tame)
      BY <2>1
    <2> QED BY <2>2, ConcatProperties DEF spi_reset, spi
  <1> QED BY <1>1, <1>3, <1>5, <1>6, <1>7, <1>8

-------------------------------------------------------------------------------
(***************************************************************************)
(* The modes: the calls follow the outline.                                *)
(***************************************************************************)
LEMMA ModeCalm ==
  ASSUME NEW s, s \in Seq(Tame) \/ s \in Seq(Calm)
  PROVE  Leads(ModeSteps, "truthful", s, "truthful")
  <1>1. s \in Seq(Calm)
    BY SeqMonotonic, TameOperations
  <1>2. \A o \in Calm : <<"truthful", o, "truthful">> \in ModeSteps
    BY DEF Calm, ModeSteps, ModeStep, ModeContexts
  <1> QED BY <1>1, <1>2, LeadsStay, TameOperations

LEMMA ModeGranted ==
  ASSUME NEW dir \in {"SPI", "QPI", "READ"}, NEW body,
         Leads(ModeSteps, "truthful", body, "truthful")
  PROVE  Leads(ModeSteps, "truthful", granted(dir, body), "truthful")
  <1>1. /\ Leads(ModeSteps, "truthful", request_bus(dir), "truthful")
        /\ Leads(ModeSteps, "truthful", << <<"try">> >>, "truthful")
        /\ Leads(ModeSteps, "truthful", << <<"finally">> >>, "truthful")
    BY ModeCalm, TamePrograms
  <1>2. Leads(ModeSteps, "truthful", request_bus(dir) \o << <<"try">> >>, "truthful")
    BY <1>1, LeadsThen
  <1>3. Leads(ModeSteps, "truthful", request_bus(dir) \o << <<"try">> >> \o body, "truthful")
    BY <1>2, LeadsThen
  <1> QED BY <1>1, <1>3, LeadsThen DEF granted

\* Both devices enter QPI before the session says so, and it says that they are not
\* before the bus goes back.
LEMMA ModeBodies ==
  /\ Leads(ModeSteps, "truthful", bring_up_both, "truthful")
  /\ Leads(ModeSteps, "truthful", exit_qpi_both, "truthful")
  /\ Leads(ModeSteps, "truthful", exit_if_in_qpi, "truthful")
  <1>1. /\ <<"truthful", <<"drive", "SPI">>, "truthful">> \in ModeSteps
        /\ <<"truthful", <<"spi", 0, "ENTER_QPI">>, "first">> \in ModeSteps
        /\ <<"first", <<"drive", "SPI">>, "first">> \in ModeSteps
        /\ <<"first", <<"spi", 1, "RESET_ENABLE">>, "first">> \in ModeSteps
        /\ <<"first", <<"spi", 1, "RESET">>, "first">> \in ModeSteps
        /\ <<"first", <<"spi", 1, "ENTER_QPI">>, "both">> \in ModeSteps
        /\ <<"both", <<"in_qpi", TRUE>>, "truthful">> \in ModeSteps
    BY AreOperations DEF ModeSteps, ModeStep, ModeContexts, Enters, Exits, Devices, Commands
  <1>2. Leads(ModeSteps, "truthful", spi_reset(0), "truthful")
    BY ModeCalm, TamePrograms DEF Devices
  <1>3. Leads(ModeSteps, "truthful", enter_qpi(0), "first")
    BY <1>1, Leads2, AreOperations DEF enter_qpi, spi, Devices, Commands
  <1>4. Leads(ModeSteps, "first", spi_reset(1), "first")
    <2>1. Leads(ModeSteps, "first", spi(1, "RESET_ENABLE"), "first")
      BY <1>1, Leads2, AreOperations DEF spi, Devices, Commands
    <2>2. Leads(ModeSteps, "first", << <<"spi", 1, "RESET">> >>, "first")
      BY <1>1, Leads1, AreOperations DEF Devices, Commands
    <2> QED BY <2>1, <2>2, LeadsThen DEF spi_reset
  <1>5. Leads(ModeSteps, "first", enter_qpi(1), "both")
    BY <1>1, Leads2, AreOperations DEF enter_qpi, spi, Devices, Commands
  <1>6. Leads(ModeSteps, "both", << <<"in_qpi", TRUE>> >>, "truthful")
    BY <1>1, Leads1, AreOperations
  <1>7. Leads(ModeSteps, "truthful", bring_up_both, "truthful")
    <2>1. Leads(ModeSteps, "truthful", spi_reset(0) \o enter_qpi(0), "first")
      BY <1>2, <1>3, LeadsThen
    <2>2. Leads(ModeSteps, "truthful", spi_reset(0) \o enter_qpi(0) \o spi_reset(1), "first")
      BY <1>4, <2>1, LeadsThen
    <2>3. Leads(ModeSteps, "truthful",
                spi_reset(0) \o enter_qpi(0) \o spi_reset(1) \o enter_qpi(1), "both")
      BY <1>5, <2>2, LeadsThen
    <2> QED BY <1>6, <2>3, LeadsThen DEF bring_up_both
  <1>8. ASSUME NEW a \in {"truthful", "leaving"}, NEW d \in Devices
        PROVE  Leads(ModeSteps, a, exit_qpi(d), "leaving")
    <2>1. /\ <<a, <<"drive", "QPI">>, a>> \in ModeSteps
          /\ <<a, <<"qpi", d, "EXIT_QPI">>, "leaving">> \in ModeSteps
          /\ <<"leaving", <<"restore_spi_pins">>, "leaving">> \in ModeSteps
          /\ <<"leaving", <<"drive", "SPI">>, "leaving">> \in ModeSteps
      BY AreOperations DEF ModeSteps, ModeStep, ModeContexts, Exits, Commands, Plain
    <2> QED BY <2>1, Leads4, AreOperations DEF exit_qpi, Commands, Plain
  <1>9. Leads(ModeSteps, "truthful", exit_qpi_both, "truthful")
    <2>1. Leads(ModeSteps, "truthful", exit_qpi(0) \o exit_qpi(1), "leaving")
      BY <1>8, LeadsThen DEF Devices
    <2>2. <<"leaving", <<"in_qpi", FALSE>>, "truthful">> \in ModeSteps
      BY AreOperations DEF ModeSteps, ModeStep, ModeContexts
    <2>3. Leads(ModeSteps, "leaving", << <<"in_qpi", FALSE>> >>, "truthful")
      BY <2>2, Leads1, AreOperations
    <2> QED BY <2>1, <2>3, LeadsThen DEF exit_qpi_both
  <1>10. Leads(ModeSteps, "truthful", exit_if_in_qpi, "truthful")
    BY <1>9, LeadsNowhere DEF exit_if_in_qpi
  <1> QED BY <1>7, <1>9, <1>10

LEMMA ModeCalls ==
  /\ Leads(ModeSteps, "truthful", init, "truthful")
  /\ \A force \in BOOLEAN : Leads(ModeSteps, "truthful", bring_up_psram(force), "truthful")
  /\ \A d \in Devices : /\ Leads(ModeSteps, "truthful", write_span(d), "truthful")
                        /\ Leads(ModeSteps, "truthful", read_span(d), "truthful")
                        /\ Leads(ModeSteps, "truthful", qpi_probe_read(d), "truthful")
  /\ Leads(ModeSteps, "truthful", pulse_start, "truthful")
  /\ Leads(ModeSteps, "truthful", wait_idle, "truthful")
  /\ Leads(ModeSteps, "truthful", pulse_start \o wait_idle, "truthful")
  /\ Leads(ModeSteps, "truthful", kill_dma, "truthful")
  /\ Leads(ModeSteps, "truthful", recover, "truthful")
  /\ \A exit \in BOOLEAN : Leads(ModeSteps, "truthful", shutdown(exit), "truthful")
  /\ Leads(ModeSteps, "truthful", << <<"clear_state">> >>, "truthful")
  <1>1. /\ \A name \in Plain : <<name>> \in Calm
        /\ \A v \in {0, 1} : <<"ui_start", v>> \in Calm /\ <<"rst_n", v>> \in Calm
        /\ \A dir \in {"HIZ", "QPI", "READ"} : <<"oe", dir>> \in Calm /\ <<"drive", dir>> \in Calm
        /\ \A d \in Devices : <<"qpi", d, "WRITE">> \in Calm /\ <<"qpi", d, "READ">> \in Calm
    BY TameOperations DEF Commands
  <1>2. Leads(ModeSteps, "truthful", init, "truthful")
    <2>1. init \in Seq(Calm)
      BY <1>1 DEF init, Plain
    <2> QED BY <2>1, ModeCalm
  <1>3. Leads(ModeSteps, "truthful", pulse_start, "truthful")
    <2>1. << <<"may_start">>, <<"ui_start", 1>>, <<"poll">>,
             <<"ui_start", 0>>, <<"poll">>, <<"record_poll">> >> \in Seq(Calm)
      BY <1>1 DEF Plain
    <2>2. Leads(ModeSteps, "truthful", hiz, "truthful")
      BY ModeCalm, TamePrograms
    <2> QED BY <2>1, <2>2, ModeCalm, LeadsThen DEF pulse_start
  <1>4. /\ Leads(ModeSteps, "truthful", wait_idle, "truthful")
        /\ Leads(ModeSteps, "truthful", kill_dma, "truthful")
        /\ Leads(ModeSteps, "truthful", hiz, "truthful")
    BY ModeCalm, TamePrograms
  <1>5. Leads(ModeSteps, "truthful", pulse_start \o wait_idle, "truthful")
    BY <1>3, <1>4, LeadsThen
  <1>6. ASSUME NEW dir \in {"SPI", "QPI"}
        PROVE  Leads(ModeSteps, "truthful", granted(dir, exit_if_in_qpi \o bring_up_both),
                     "truthful")
    <2>1. Leads(ModeSteps, "truthful", exit_if_in_qpi \o bring_up_both, "truthful")
      BY ModeBodies, LeadsThen
    <2> QED BY <2>1, ModeGranted
  <1>7. ASSUME NEW force \in BOOLEAN
        PROVE  Leads(ModeSteps, "truthful", bring_up_psram(force), "truthful")
    BY <1>6, LeadsNowhere DEF bring_up_psram
  <1>8. ASSUME NEW d \in Devices
        PROVE  /\ Leads(ModeSteps, "truthful", write_span(d), "truthful")
               /\ Leads(ModeSteps, "truthful", read_span(d), "truthful")
               /\ Leads(ModeSteps, "truthful", qpi_probe_read(d), "truthful")
    <2>1. \A x, y, z \in Calm : <<x>> \in Seq(Calm) /\ <<x, y, z>> \in Seq(Calm)
      OBVIOUS
    <2>2. /\ << <<"drive", "QPI">>, <<"qpi", d, "WRITE">>, <<"qpi", d, "WRITE">> >> \in Seq(Calm)
          /\ << <<"drive", "READ">>, <<"qpi", d, "READ">>, <<"qpi", d, "READ">> >> \in Seq(Calm)
          /\ << <<"qpi", d, "READ">> >> \in Seq(Calm)
      BY <1>1, <2>1
    <2> QED BY <2>2, ModeCalm, ModeGranted DEF write_span, read_span, qpi_probe_read
  <1>9. Leads(ModeSteps, "truthful", recover, "truthful")
    <2>1. << <<"rst_n", 1>>, <<"expect_idle">> >> \in Seq(Calm)
      BY <1>1 DEF Plain
    <2> QED BY <1>6, <2>1, ModeCalm, LeadsThen DEF recover
  <1>10. Leads(ModeSteps, "truthful", << <<"clear_state">> >>, "truthful")
    <2>1. << <<"clear_state">> >> \in Seq(Calm)
      BY <1>1 DEF Plain
    <2> QED BY <2>1, ModeCalm
  <1>11. ASSUME NEW exit \in BOOLEAN PROVE Leads(ModeSteps, "truthful", shutdown(exit), "truthful")
    <2> DEFINE leaving == IF exit /\ in_qpi THEN granted("QPI", exit_qpi_both) ELSE <<>>
    <2>1. Leads(ModeSteps, "truthful", leaving, "truthful")
      BY ModeBodies, ModeGranted, LeadsNowhere
    <2>2. Leads(ModeSteps, "truthful", leaving \o hiz, "truthful")
      BY <1>4, <2>1, LeadsThen
    <2>3. Leads(ModeSteps, "truthful", << <<"zero_ui_in">>, <<"clear_state">> >>, "truthful")
      <3>1. << <<"zero_ui_in">>, <<"clear_state">> >> \in Seq(Calm)
        BY <1>1 DEF Plain
      <3> QED BY <3>1, ModeCalm
    <2> HIDE DEF leaving
    <2>4. Leads(ModeSteps, "truthful", leaving \o hiz \o << <<"zero_ui_in">>, <<"clear_state">> >>,
                "truthful")
      BY <2>2, <2>3, LeadsThen
    <2> QED BY <2>4 DEF shutdown, leaving
  <1> QED BY <1>2, <1>3, <1>4, <1>5, <1>7, <1>8, <1>9, <1>10, <1>11

-------------------------------------------------------------------------------
(***************************************************************************)
(* The modes, step by step.                                                *)
(***************************************************************************)
LEMMA ModeAt ==
  ASSUME ModeInv, ~cut, todo # <<>>
  PROVE  \E a \in ModeContexts, b \in ModeContexts :
           /\ ModeFact(a) /\ ModeStep(a, op, b)
           /\ Leads(ModeSteps, b, Tail(todo), "truthful")
  <1>1. PICK a \in ModeContexts : ModeFact(a) /\ Leads(ModeSteps, a, todo, "truthful")
    BY DEF ModeInv
  <1>2. PICK b : <<a, op, b>> \in ModeSteps /\ Leads(ModeSteps, b, Tail(todo), "truthful")
    BY <1>1, LeadsOn DEF op
  <1> QED BY <1>1, <1>2 DEF ModeSteps

\* The microcontroller touches the devices only with the bus.
LEMMA BusIsOwned ==
  ASSUME SampledInv, BusInv, ~cut, todo # <<>>,
         op[1] \in {"drive", "restore_spi_pins", "spi", "qpi", "in_qpi"}
  PROVE  Owned
  <1>1. PICK a \in BusContexts, b \in BusContexts : BusFact(a) /\ BusStep(a, op, b)
    BY BusAt
  <1>2. a \in {"owned", "tried"}
    BY <1>1 DEF BusStep, PinFree
  <1> QED BY <1>1, <1>2 DEF BusFact

LEMMA FrameModes ==
  ASSUME ModeInv, Frame
  PROVE  /\ mode' \in [Devices -> {"SPI", "QPI"}]
         /\ \A d \in Devices :
              /\ mode[d] = "QPI" /\ ~Exits(op) => mode'[d] = "QPI"
              /\ Enters(op, d) => mode'[d] = "QPI"
  <1>1. mode \in [Devices -> {"SPI", "QPI"}]
    BY DEF ModeInv
  <1>2. CASE op[1] = "spi" /\ mode' = [mode EXCEPT ![op[2]] = mode_after(@, "SPI", op[3])]
    BY <1>1, <1>2 DEF mode_after, Exits, Enters
  <1>3. CASE op[1] = "qpi" /\ mode' = [mode EXCEPT ![op[2]] = mode_after(@, "QPI", op[3])]
    BY <1>1, <1>3 DEF mode_after, Exits, Enters
  <1> QED BY <1>2, <1>3 DEF Frame, Operation

LEMMA ModeFrame ==
  ASSUME SampledInv, BusInv, ModeInv, Frame PROVE ModeInv'
  <1>1. /\ todo # <<>> /\ op[1] \in {"spi", "qpi"} /\ todo' = Tail(todo)
        /\ UNCHANGED <<rst_n, ui_start, bus_req, bus_gnt, seen, in_qpi, cut>>
    BY DEF Frame, Operation, Done, Same, pins, chip, session
  <1>2. /\ mode' \in [Devices -> {"SPI", "QPI"}]
        /\ \A d \in {0, 1} : /\ mode[d] = "QPI" /\ ~Exits(op) => mode'[d] = "QPI"
                             /\ Enters(op, d) => mode'[d] = "QPI"
    BY FrameModes DEF Devices
  <1>3. ASSUME ~cut, NEW a \in ModeContexts, NEW b \in ModeContexts, ModeFact(a),
               ModeStep(a, op, b)
        PROVE  ModeFact(b)'
    <2>1. \/ a = "truthful" /\ b = "truthful" /\ ~Exits(op)
          \/ a = "truthful" /\ b = "first" /\ Enters(op, 0)
          \/ a = "first" /\ b = "first" /\ op[1] = "spi"
          \/ a = "first" /\ b = "both" /\ Enters(op, 1)
          \/ b = "leaving"
      BY <1>1, <1>3 DEF ModeStep
    <2>2. Enters(op, 0) \/ Enters(op, 1) \/ op[1] = "spi" => ~Exits(op)
      BY DEF Enters, Exits
    <2>3. CASE b = "leaving"
      BY <1>1, <1>3, <2>3, BusIsOwned DEF ModeFact, Owned
    <2>4. CASE b # "leaving"
      BY <1>1, <1>2, <1>3, <2>1, <2>2, <2>4 DEF ModeFact, AllInQpi
    <2> QED BY <2>3, <2>4
  <1> QED BY <1>1, <1>2, <1>3, ModeAt DEF ModeInv

\* A step that leaves modes and books alone goes on from the same context.
LEMMA ModeCarry ==
  ASSUME ModeInv, UNCHANGED <<mode, cut>>, in_qpi' => in_qpi,
         ~cut => \E a \in ModeContexts :
           ModeFact(a) /\ (a = "leaving" => Owned') /\ Leads(ModeSteps, a, todo', "truthful")
  PROVE  ModeInv'
  <1>1. mode' \in [Devices -> {"SPI", "QPI"}]
    BY DEF ModeInv
  <1>2. ASSUME NEW a \in ModeContexts, ModeFact(a), a = "leaving" => Owned' PROVE ModeFact(a)'
    BY <1>2 DEF ModeFact, AllInQpi
  <1> QED BY <1>1, <1>2 DEF ModeInv

\* Pins, drive, checks and polls.
LEMMA ModeDone ==
  ASSUME ModeInv, todo # <<>>, todo' = Tail(todo), UNCHANGED <<mode, cut>>, in_qpi' => in_qpi,
         op[1] \notin {"in_qpi", "spi", "qpi"},
         op[1] \in {"drive", "restore_spi_pins"} /\ Owned => Owned'
  PROVE  ModeInv'
  <1>1. ASSUME NEW a \in ModeContexts, NEW b \in ModeContexts, ModeFact(a), ModeStep(a, op, b)
        PROVE  b = a /\ (a = "leaving" => Owned')
    BY <1>1 DEF ModeStep, Enters, Exits, ModeFact
  <1> QED BY <1>1, ModeAt, ModeCarry

\* What a timeout, an exception and a finally put in front of the rest.
LEMMA ModeTurn ==
  ASSUME ModeInv, todo # <<>>, UNCHANGED <<mode, in_qpi, cut>>,
         NEW s \in Seq(Tame), todo' \in {s, s \o Tail(todo)},
         op[1] \in {"may_request", "may_start", "expect_idle", "raise", "wait", "wait_busy",
                   "try", "finally"}
  PROVE  ModeInv'
  <1>1. ASSUME NEW a \in ModeContexts, NEW b \in ModeContexts, ModeStep(a, op, b),
               Leads(ModeSteps, b, Tail(todo), "truthful")
        PROVE  a = "truthful" /\ Leads(ModeSteps, "truthful", todo', "truthful")
    <2>1. a = "truthful" /\ b = "truthful"
      BY <1>1 DEF ModeStep, Enters, Exits
    <2>2. Leads(ModeSteps, "truthful", s, "truthful")
      BY ModeCalm
    <2> QED BY <1>1, <2>1, <2>2, LeadsThen
  <1> QED BY <1>1, ModeAt, ModeCarry

LEMMA RaiseTodo ==
  ASSUME Raise PROVE \E s \in Seq(Tame) : todo' = s
  <1>1. <<>> \in Seq(Tame)
    OBVIOUS
  <1> QED BY <1>1, TamePrograms DEF Raise

LEMMA ModeExecute ==
  ASSUME SampledInv, BusInv, ModeInv,
         SetPin \/ SetDrive \/ Guard \/ Wait \/ Poll \/ WaitBusy \/ TryFinally
  PROVE  ModeInv'
  <1>1. todo # <<>> /\ UNCHANGED <<mode, in_qpi, cut>>
    BY DEF SetPin, SetDrive, Guard, Wait, Poll, WaitBusy, TryFinally, Operation, Same, session
  <1>2. CASE SetPin
    <2>1. todo' = Tail(todo) /\ op[1] \in {"ui_start", "bus_req", "zero_ui_in", "rst_n"}
      BY <1>2 DEF SetPin, Operation, Done
    <2> QED BY <1>1, <2>1, ModeDone
  <1>3. CASE SetDrive
    <2>1. /\ op[1] \in {"oe", "drive", "release_pins", "restore_spi_pins"}
          /\ UNCHANGED <<bus_req, bus_gnt, rst_n, ui_start, seen>>
          /\ op[1] = "drive" => Check(drive_legal)
          /\ op[1] # "drive" => Done
      BY <1>3 DEF SetDrive, Operation, Same, pins, chip
    <2>2. CASE Done
      <3>1. todo' = Tail(todo) /\ (Owned => Owned')
        BY <2>1, <2>2 DEF Done, Owned
      <3> QED BY <1>1, <2>1, <3>1, ModeDone
    <2>3. CASE ~Done
      <3>1. op[1] = "drive" /\ ~drive_legal
        BY <2>1, <2>3 DEF Check
      <3>2. cut
        BY <1>1, <3>1, BusIsOwned DEF drive_legal, Owned
      <3> QED BY <1>1, <3>2, ModeCarry
    <2> QED BY <2>2, <2>3
  <1>4. CASE Guard
    <2>1. /\ op[1] \in {"may_request", "may_start", "expect_idle", "raise"}
          /\ Raise \/ Done
      BY <1>4 DEF Guard, Operation, Check
    <2>2. CASE Raise
      BY <1>1, <2>1, <2>2, RaiseTodo, ModeTurn
    <2>3. CASE Done
      BY <1>1, <2>1, <2>3, ModeDone DEF Done
    <2> QED BY <2>1, <2>2, <2>3
  <1>5. CASE Wait
    <2>1. op[1] = "wait" /\ (Done \/ todo' = kill_dma \o << <<"raise">> >>)
      BY <1>5 DEF Wait, Operation
    <2>2. CASE todo' = kill_dma \o << <<"raise">> >>
      BY <1>1, <2>1, <2>2, TamePrograms, ModeTurn
    <2>3. CASE Done
      BY <1>1, <2>1, <2>3, ModeDone DEF Done
    <2> QED BY <2>1, <2>2, <2>3
  <1>6. CASE Poll
    BY <1>1, <1>6, ModeDone DEF Poll, Operation, Done
  <1>7. CASE WaitBusy
    <2>1. op[1] = "wait_busy" /\ todo' = after_ack(saw_busy') \o Tail(todo)
      BY <1>7 DEF WaitBusy, Operation
    <2>2. after_ack(saw_busy') \in Seq(Tame)
      BY TamePrograms DEF after_ack
    <2> QED BY <1>1, <2>1, <2>2, ModeTurn
  <1>8. CASE TryFinally
    <2>1. \/ op[1] = "try" /\ todo' = Tail(todo)
          \/ op[1] = "finally" /\ todo' = release_bus \o Tail(todo)
      BY <1>8 DEF TryFinally, Operation
    <2> QED BY <1>1, <2>1, TamePrograms, ModeTurn, ModeDone
  <1> QED BY <1>2, <1>3, <1>4, <1>5, <1>6, <1>7, <1>8

LEMMA ModeBookkeeping ==
  ASSUME SampledInv, BusInv, ModeInv, Bookkeeping PROVE ModeInv'
  <1>1. todo # <<>> /\ todo' = Tail(todo) /\ UNCHANGED <<mode, cut>>
    BY DEF Bookkeeping, Operation, Done, Same
  <1>2. CASE op[1] = "in_qpi" /\ in_qpi' = op[2]
    <2>1. ASSUME NEW a \in ModeContexts, NEW b \in ModeContexts, ModeFact(a), ModeStep(a, op, b)
          PROVE  ModeFact(b)' /\ b = "truthful"
      <3>1. \/ a = "both" /\ b = "truthful"
            \/ a = "leaving" /\ b = "truthful" /\ ~op[2]
        BY <1>2, <2>1 DEF ModeStep, Enters, Exits
      <3> QED BY <1>1, <1>2, <2>1, <3>1 DEF ModeFact, AllInQpi
    <2> QED BY <1>1, <2>1, ModeAt DEF ModeInv
  <1>3. CASE op[1] \notin {"in_qpi", "spi", "qpi", "drive", "restore_spi_pins"}
              /\ (in_qpi' = in_qpi \/ in_qpi' = FALSE)
    BY <1>1, <1>3, ModeDone
  <1> QED BY <1>2, <1>3 DEF Bookkeeping, Operation

LEMMA ModeBegin ==
  ASSUME NEW name, NEW program, SampledInv, ModeInv, Begin(name, program),
         Leads(ModeSteps, "truthful", program, "truthful")
  PROVE  ModeInv'
  <1>1. todo = <<>> /\ todo' = program /\ UNCHANGED <<mode, in_qpi, cut>>
    BY DEF Begin, SampledInv, session
  <1>2. ~cut => ModeFact("truthful")
    BY <1>1, LeadsNowhere DEF ModeInv
  <1> QED BY <1>1, <1>2, ModeCarry DEF ModeContexts

LEMMA ModeCall ==
  ASSUME SampledInv, ModeInv, Call PROVE ModeInv'
  <1>1. CASE Begin("init", init)
    BY <1>1, ModeBegin, ModeCalls
  <1>2. ASSUME NEW force \in BOOLEAN, Begin("bring_up_psram", bring_up_psram(force)) PROVE ModeInv'
    BY <1>2, ModeBegin, ModeCalls
  <1>3. ASSUME NEW d \in Devices,
               \/ Begin("write_span", write_span(d))
               \/ Begin("read_span", read_span(d))
               \/ Begin("qpi_probe_read", qpi_probe_read(d))
        PROVE  ModeInv'
    BY <1>3, ModeBegin, ModeCalls
  <1>4. CASE Begin("pulse_start", pulse_start)
    BY <1>4, ModeBegin, ModeCalls
  <1>5. CASE Begin("wait_idle", wait_idle)
    BY <1>5, ModeBegin, ModeCalls
  <1>6. CASE Begin("start_and_wait", pulse_start \o wait_idle)
    BY <1>6, ModeBegin, ModeCalls
  <1>7. CASE Begin("reset_dma", kill_dma)
    BY <1>7, ModeBegin, ModeCalls
  <1>8. CASE Begin("recover", recover)
    BY <1>8, ModeBegin, ModeCalls
  <1>9. ASSUME NEW exit \in BOOLEAN, Begin("shutdown", shutdown(exit)) PROVE ModeInv'
    BY <1>9, ModeBegin, ModeCalls
  <1>10. CASE Begin("clear_state", << <<"clear_state">> >>)
    BY <1>10, ModeBegin, ModeCalls
  <1> QED BY <1>1, <1>2, <1>3, <1>4, <1>5, <1>6, <1>7, <1>8, <1>9, <1>10 DEF Call

LEMMA ModeReturn ==
  ASSUME ModeInv, UpInv, Return PROVE ModeInv'
  <1>1. /\ todo = <<>> /\ todo' = <<>> /\ cut' = (cut /\ ~Recovered)
        /\ UNCHANGED <<mode, in_qpi>>
    BY DEF Return, session
  <1>2. ~cut => ModeFact("truthful")
    BY <1>1, LeadsNowhere DEF ModeInv
  <1>3. Recovered => ModeFact("truthful")
    <2> SUFFICES ASSUME Recovered PROVE ModeFact("truthful")
      OBVIOUS
    <2>1. UpFact("usable")
      BY <1>1, LeadsNowhere DEF Recovered, UpInv, Reports
    <2> QED BY <2>1 DEF UpFact, Up, ModeFact
  <1>4. ~cut' => ModeFact("truthful")'
    BY <1>1, <1>2, <1>3 DEF ModeFact, AllInQpi
  <1> QED BY <1>1, <1>4, LeadsNowhere DEF ModeInv, ModeContexts

\* The chip keeps a grant as long as it is asked for and not reset.
LEMMA GrantStays ==
  ASSUME Clk, Owned PROVE Owned'
  <1>1. /\ seen' /\ UNCHANGED <<bus_req, rst_n, ui_start>> /\ Chip!Next
    BY DEF Clk, pins
  <1>2. bus_gnt' = 1
    BY <1>1 DEF Owned, Chip!Next, Chip!Reset, Chip!Grant, Chip!Transfer, Chip!Return, Chip!Start,
           Chip!StayIdle, Chip!Run, Chip!Free, Chip!port
  <1> QED BY <1>1, <1>2 DEF Owned

LEMMA ModeNext ==
  ASSUME SampledInv, BusInv, ModeInv, UpInv, [Next]_vars PROVE ModeInv'
  <1>1. CASE Interrupt
    BY <1>1 DEF Interrupt, ModeInv
  <1>2. CASE Clk
    <2>1. UNCHANGED <<mode, in_qpi, cut, todo>>
      BY <1>2 DEF Clk, session
    <2>2. \A a : ModeFact(a) /\ a = "leaving" => Owned'
      BY <1>2, GrantStays DEF ModeFact
    <2> QED BY <2>1, <2>2, ModeCarry DEF ModeInv
  <1>3. CASE UNCHANGED vars
    <2>1. UNCHANGED <<mode, in_qpi, cut, todo>> /\ (Owned => Owned')
      BY <1>3 DEF vars, pins, chip, session, progress, Owned
    <2>2. \A a : ModeFact(a) /\ a = "leaving" => Owned'
      BY <2>1 DEF ModeFact
    <2> QED BY <2>1, <2>2, ModeCarry DEF ModeInv
  <1> QED BY <1>1, <1>2, <1>3, ModeExecute, ModeFrame, ModeBookkeeping, ModeReturn, ModeCall
          DEF Next, Execute

-------------------------------------------------------------------------------
(***************************************************************************)
(* START: the call follows the outline, and every step keeps to it.        *)
(***************************************************************************)
LEMMA BegunTame ==
  ASSUME NEW a \in BegunContexts, NEW s \in Seq(Tame) PROVE Leads(BegunSteps, a, s, a)
  <1>1. \A o \in Tame : <<a, o, a>> \in BegunSteps
    BY DEF Tame, Calm, BegunSteps, BegunStep
  <1>2. Tame \subseteq Operations
    BY TameOperations
  <1> QED BY <1>1, <1>2, LeadsStay

LEMMA BegunRaise ==
  ASSUME NEW a \in BegunContexts
  PROVE  Leads(BegunSteps, a, kill_dma \o << <<"raise">> >>, "begun")
  <1>1. <<a, <<"raise">>, "begun">> \in BegunSteps
    BY AreOperations DEF BegunSteps, BegunStep, BegunContexts, Plain
  <1>2. Leads(BegunSteps, a, << <<"raise">> >>, "begun")
    BY <1>1, Leads1, AreOperations DEF Plain
  <1> QED BY <1>2, BegunTame, TamePrograms, LeadsThen

LEMMA BegunStart == Leads(BegunSteps, "before", pulse_start \o wait_idle, "begun")
  <1>1. /\ <<"may_start">> \in Operations /\ <<"ui_start", 1>> \in Operations
        /\ <<"poll">> \in Operations /\ <<"ui_start", 0>> \in Operations
        /\ <<"record_poll">> \in Operations
    BY AreOperations DEF Plain
  <1>2. /\ <<"before", <<"may_start">>, "before">> \in BegunSteps
        /\ <<"before", <<"ui_start", 1>>, "begun">> \in BegunSteps
        /\ <<"begun", <<"poll">>, "begun">> \in BegunSteps
        /\ <<"begun", <<"ui_start", 0>>, "begun">> \in BegunSteps
        /\ <<"begun", <<"record_poll">>, "begun">> \in BegunSteps
    BY <1>1 DEF BegunSteps, BegunStep, BegunContexts
  <1>3. Leads(BegunSteps, "before",
              << <<"may_start">>, <<"ui_start", 1>>, <<"poll">>,
                 <<"ui_start", 0>>, <<"poll">>, <<"record_poll">> >>, "begun")
    BY <1>1, <1>2, Leads6
  <1>4. Leads(BegunSteps, "before", hiz, "before") /\ Leads(BegunSteps, "begun", wait_idle, "begun")
    BY BegunTame, TamePrograms DEF BegunContexts
  <1>5. Leads(BegunSteps, "before", pulse_start, "begun")
    BY <1>3, <1>4, LeadsThen DEF pulse_start
  <1> QED BY <1>4, <1>5, LeadsThen

LEMMA BegunAt ==
  ASSUME BegunInv, ~cut, Reports("start_and_wait"), todo # <<>>
  PROVE  \E a \in BegunContexts, b \in BegunContexts :
           /\ BegunFact(a) /\ BegunStep(a, op, b)
           /\ Leads(BegunSteps, b, Tail(todo), "begun")
  <1>1. PICK a \in BegunContexts : BegunFact(a) /\ Leads(BegunSteps, a, todo, "begun")
    BY DEF BegunInv
  <1>2. PICK b : <<a, op, b>> \in BegunSteps /\ Leads(BegunSteps, b, Tail(todo), "begun")
    BY <1>1, LeadsOn DEF op
  <1> QED BY <1>1, <1>2 DEF BegunSteps

LEMMA BegunSetPin ==
  ASSUME SampledInv, BusInv, BegunInv, SetPin PROVE BegunInv'
  <1>1. /\ todo # <<>> /\ seen /\ todo' = Tail(todo) /\ seen' = FALSE
        /\ UNCHANGED <<bus_gnt, done, start_d, began, cut, call, failed, last>>
    BY DEF SetPin, Operation, Done, chip
  <1>2. ASSUME ~cut, NEW a \in BegunContexts, NEW b \in BegunContexts, BegunFact(a),
               BegunStep(a, op, b)
        PROVE  BegunFact(b)'
    <2>1. CASE op[1] = "ui_start" /\ op[2] = 1
      <3>1. ui_start' = 1 /\ UNCHANGED <<bus_req, rst_n>>
        BY <2>1 DEF SetPin, Operation
      <3>2. PICK c \in BusContexts, d \in BusContexts : BusFact(c) /\ BusStep(c, op, d)
        BY <1>1, <1>2, BusAt
      <3>3. c = "idle"
        BY <2>1, <3>2 DEF BusStep, PinFree
      <3>4. bus_req = 0 /\ bus_gnt = 0 /\ done = 1 /\ ui_start = 0
        BY <3>2, <3>3 DEF BusFact, Quiet
      <3>5. rst_n = 0 \/ start_d = 0
        BY <1>1, <3>4 DEF SampledInv
      <3> QED BY <1>1, <3>1, <3>4, <3>5 DEF BegunFact, start
    <2>2. CASE ~(op[1] = "ui_start" /\ op[2] = 1)
      <3>1. b = a /\ (op[1] = "rst_n" => op[2] = 0)
        BY <1>2, <2>2 DEF SetPin, Operation, BegunStep
      <3>2. a = "begun" => began \/ rst_n = 0
        BY <1>1, <1>2 DEF BegunFact
      <3>3. rst_n = 0 => rst_n' = 0
        BY <3>1 DEF SetPin, Operation
      <3> QED BY <1>1, <3>1, <3>2, <3>3 DEF BegunFact
    <2> QED BY <2>1, <2>2
  <1>3. Reports("start_and_wait")' = Reports("start_and_wait")
    BY <1>1 DEF Reports
  <1> QED BY <1>1, <1>2, <1>3, BegunAt DEF BegunInv

\* An operation that is not a pin write may raise, time out, or put tame ones in front.
LEMMA BegunOther ==
  ASSUME SampledInv, BegunInv, todo # <<>>, seen,
         UNCHANGED <<rst_n, ui_start, bus_req, bus_gnt, done, start_d, began, seen, cut, call,
                     last>>,
         op[1] \notin {"ui_start", "rst_n"},
         \/ failed'
         \/ /\ UNCHANGED failed /\ op[1] # "raise"
            /\ \/ todo' = kill_dma \o << <<"raise">> >>
               \/ todo' = Tail(todo)
               \/ \E s \in Seq(Tame) : todo' = s \o Tail(todo)
  PROVE  BegunInv'
  <1>1. call # NONE
    BY DEF SampledInv
  <1>2. CASE failed'
    BY <1>1, <1>2 DEF BegunInv, Reports
  <1>3. CASE ~failed'
    <2>1. Reports("start_and_wait")' => Reports("start_and_wait")
      <3>1. UNCHANGED <<failed, call, last>>
        BY <1>3
      <3> QED BY <3>1 DEF Reports
    <2>2. ASSUME NEW a \in BegunContexts, NEW b \in BegunContexts, BegunFact(a),
                 BegunStep(a, op, b), Leads(BegunSteps, b, Tail(todo), "begun")
          PROVE  BegunFact(a)' /\ Leads(BegunSteps, a, todo', "begun")
      <3>1. BegunFact(a)'
        BY <2>2 DEF BegunFact, start
      <3>2. a = b
        BY <1>3, <2>2 DEF BegunStep
      <3>3. CASE todo' = kill_dma \o << <<"raise">> >>
        BY <3>1, <3>3, BegunRaise
      <3>4. ASSUME NEW s \in Seq(Tame), todo' = s \o Tail(todo)
            PROVE  Leads(BegunSteps, a, todo', "begun")
        <4>1. Leads(BegunSteps, a, s, a)
          BY BegunTame
        <4> QED BY <2>2, <3>2, <3>4, <4>1, LeadsThen
      <3> QED BY <1>3, <2>2, <3>1, <3>2, <3>3, <3>4
    <2> QED BY <2>1, <2>2, BegunAt DEF BegunInv
  <1> QED BY <1>2, <1>3

\* The operations but the pin writes, as BegunOther and its like need them.
LEMMA OtherOperations ==
  ASSUME SetDrive \/ Frame \/ Guard \/ Wait \/ Poll \/ WaitBusy \/ Bookkeeping \/ TryFinally
  PROVE  /\ todo # <<>> /\ seen /\ op[1] \notin {"ui_start", "bus_req", "zero_ui_in", "rst_n"}
         /\ UNCHANGED <<rst_n, ui_start, bus_req, bus_gnt, done, start_d, began, seen, cut, call,
                        last>>
         /\ \/ Raise
            \/ /\ UNCHANGED failed /\ op[1] # "raise"
               /\ \/ op[1] = "wait" /\ todo' = kill_dma \o << <<"raise">> >>
                  \/ op[1] \notin {"wait_busy", "finally"} /\ todo' = Tail(todo)
                  \/ op[1] = "wait_busy" /\ \E s \in Seq(Tame) : todo' = s \o Tail(todo)
                  \/ op[1] = "finally" /\ todo' = release_bus \o Tail(todo)
  <1>1. CASE SetDrive
    BY <1>1 DEF SetDrive, Operation, Check, Done, Same, pins, chip
  <1>2. CASE Frame
    BY <1>2 DEF Frame, Operation, Done, Same, pins, chip
  <1>3. CASE Guard
    BY <1>3 DEF Guard, Operation, Check, Done, Same, pins, chip
  <1>4. CASE Wait
    BY <1>4 DEF Wait, Operation, Done, Same, pins, chip
  <1>5. CASE Poll
    BY <1>5 DEF Poll, Operation, Done, pins, chip
  <1>6. CASE WaitBusy
    <2>1. after_ack(saw_busy') \in Seq(Tame)
      BY TamePrograms DEF after_ack
    <2> QED BY <1>6, <2>1 DEF WaitBusy, Operation, Same, pins, chip
  <1>7. CASE Bookkeeping
    BY <1>7 DEF Bookkeeping, Operation, Done, Same, pins, chip
  <1>8. CASE TryFinally
    BY <1>8 DEF TryFinally, Operation, Same, pins, chip
  <1> QED BY <1>1, <1>2, <1>3, <1>4, <1>5, <1>6, <1>7, <1>8

LEMMA BegunClk ==
  ASSUME BegunInv, Clk PROVE BegunInv'
  <1>1. /\ Chip!Next /\ UNCHANGED <<rst_n, call, todo, failed, last, cut>>
        /\ began' = (began \/ (done = 1 /\ done' = 0))
    BY DEF Clk, pins
  <1>2. start = 1 /\ done = 1 /\ bus_req = 0 /\ bus_gnt = 0 => rst_n = 0 \/ done' = 0
    BY <1>1 DEF Chip!Next, Chip!Reset, Chip!Grant, Chip!Transfer, Chip!Return, Chip!Start,
           Chip!StayIdle, Chip!Run, Chip!Free
  <1>3. \A a : BegunFact(a) => BegunFact(a)'
    BY <1>1, <1>2 DEF BegunFact
  <1>4. Reports("start_and_wait")' = Reports("start_and_wait")
    BY <1>1 DEF Reports
  <1> QED BY <1>1, <1>3, <1>4 DEF BegunInv

LEMMA BegunReturn ==
  ASSUME BegunInv, Return PROVE BegunInv'
  <1>1. /\ call # NONE /\ todo = <<>> /\ todo' = <<>> /\ call' = NONE /\ last' = <<call, ~failed>>
        /\ cut' = (cut /\ ~Recovered)
        /\ UNCHANGED <<rst_n, ui_start, bus_req, bus_gnt, done, start_d, began, seen>>
    BY DEF Return, pins, chip
  <1>2. ASSUME ~cut', Reports("start_and_wait")'
        PROVE  BegunFact("begun")'
    <2>1. call = "start_and_wait" /\ ~failed
      BY <1>1, <1>2 DEF Reports, NONE
    <2>2. ~cut
      BY <1>1, <1>2, <2>1 DEF Recovered
    <2>3. BegunFact("begun")
      BY <1>1, <2>1, <2>2, LeadsNowhere DEF BegunInv, Reports
    <2> QED BY <1>1, <2>3 DEF BegunFact, start
  <1> QED BY <1>1, <1>2, LeadsNowhere DEF BegunInv, BegunContexts

LEMMA BegunCall ==
  ASSUME Call PROVE BegunInv'
  <1>1. CASE Begin("start_and_wait", pulse_start \o wait_idle)
    <2>1. todo' = pulse_start \o wait_idle /\ BegunFact("before")'
      BY <1>1 DEF Begin, BegunFact
    <2> QED BY <2>1, BegunStart DEF BegunInv, BegunContexts
  <1>2. ASSUME NEW name, NEW program, name \notin {NONE, "start_and_wait"}, Begin(name, program)
        PROVE  BegunInv'
    BY <1>2 DEF Begin, BegunInv, Reports
  <1> QED BY <1>1, <1>2 DEF Call, NONE

LEMMA BegunNext ==
  ASSUME SampledInv, BusInv, BegunInv, [Next]_vars PROVE BegunInv'
  <1>1. CASE Interrupt
    BY <1>1 DEF Interrupt, BegunInv
  <1>2. CASE UNCHANGED vars
    <2>1. UNCHANGED <<rst_n, ui_start, bus_req, bus_gnt, done, start_d, began, seen, cut, call,
                      todo, last, failed>>
      BY <1>2 DEF vars, pins, chip, progress
    <2>2. \A a : BegunFact(a)' <=> BegunFact(a)
      BY <2>1 DEF BegunFact, start
    <2> QED BY <2>1, <2>2 DEF BegunInv, Reports
  <1>3. CASE SetDrive \/ Frame \/ Guard \/ Wait \/ Poll \/ WaitBusy \/ Bookkeeping \/ TryFinally
    <2>1. \/ failed'
          \/ /\ UNCHANGED failed /\ op[1] # "raise"
             /\ \/ todo' = kill_dma \o << <<"raise">> >>
                \/ todo' = Tail(todo)
                \/ \E s \in Seq(Tame) : todo' = s \o Tail(todo)
      BY <1>3, OtherOperations, TamePrograms DEF Raise
    <2> QED BY <1>3, <2>1, OtherOperations, BegunOther
  <1> QED BY <1>1, <1>2, <1>3, BegunSetPin, BegunClk, BegunReturn, BegunCall DEF Next, Execute

-------------------------------------------------------------------------------
(***************************************************************************)
(* A recover: the call follows the outline.                                *)
(***************************************************************************)
LEMMA UpLost ==
  ASSUME NEW s \in Seq(Tame) PROVE Leads(UpSteps, "lost", s, "lost")
  <1>1. \A o \in Tame : <<"lost", o, "lost">> \in UpSteps
    BY TameOperations DEF UpSteps, UpStep, UpContexts
  <1> QED BY <1>1, TameOperations, LeadsStay

LEMMA UpRaise == Leads(UpSteps, "lost", kill_dma \o << <<"raise">> >>, "usable")
  <1>1. <<"lost", <<"raise">>, "usable">> \in UpSteps
    BY AreOperations DEF UpSteps, UpStep, UpContexts, Plain
  <1>2. Leads(UpSteps, "lost", << <<"raise">> >>, "usable")
    BY <1>1, Leads1, AreOperations DEF Plain
  <1> QED BY <1>2, UpLost, TamePrograms, LeadsThen

LEMMA UpRelease == Leads(UpSteps, "up", release_bus, "usable")
  <1>1. /\ <<"release_pins">> \in Operations /\ <<"oe", "HIZ">> \in Operations
        /\ <<"bus_req", 0>> \in Operations /\ <<"wait", "BUS_GNT low">> \in Operations
    BY AreOperations DEF Plain, Levels
  <1>2. /\ <<"up", <<"release_pins">>, "unpadded">> \in UpSteps
        /\ <<"unpadded", <<"oe", "HIZ">>, "handed">> \in UpSteps
        /\ <<"handed", <<"bus_req", 0>>, "dropped">> \in UpSteps
        /\ <<"dropped", <<"wait", "BUS_GNT low">>, "usable">> \in UpSteps
    BY <1>1 DEF UpSteps, UpStep, UpContexts
  <1>3. Leads(UpSteps, "up", hiz, "handed")
    BY <1>1, <1>2, Leads2 DEF hiz
  <1>4. Leads(UpSteps, "handed", << <<"bus_req", 0>>, <<"wait", "BUS_GNT low">> >>, "usable")
    BY <1>1, <1>2, Leads2
  <1> QED BY <1>3, <1>4, LeadsThen DEF release_bus

\* With the bus, a bring-up from any modes ends with both devices in QPI.
LEMMA UpBody == Leads(UpSteps, "ours", exit_if_in_qpi \o bring_up_both, "up")
  <1>1. /\ <<"drive", "SPI">> \in Operations /\ <<"drive", "QPI">> \in Operations
        /\ <<"restore_spi_pins">> \in Operations
        /\ \A v \in BOOLEAN : <<"in_qpi", v>> \in Operations
        /\ \A d \in {0, 1} : /\ <<"spi", d, "RESET_ENABLE">> \in Operations
                             /\ <<"spi", d, "RESET">> \in Operations
                             /\ <<"spi", d, "ENTER_QPI">> \in Operations
                             /\ <<"qpi", d, "EXIT_QPI">> \in Operations
    BY AreOperations DEF Plain, Devices, Commands
  <1>2. /\ <<"ours", <<"drive", "SPI">>, "ours">> \in UpSteps
        /\ <<"ours", <<"drive", "QPI">>, "ours">> \in UpSteps
        /\ <<"ours", <<"restore_spi_pins">>, "ours">> \in UpSteps
        /\ <<"ours", <<"in_qpi", FALSE>>, "ours">> \in UpSteps
        /\ \A d \in {0, 1} : /\ <<"ours", <<"qpi", d, "EXIT_QPI">>, "ours">> \in UpSteps
                             /\ <<"ours", <<"spi", d, "RESET_ENABLE">>, "ours">> \in UpSteps
                             /\ <<"ours", <<"spi", d, "RESET">>, "ours">> \in UpSteps
    BY <1>1 DEF UpSteps, UpStep, UpContexts
  <1>3. /\ <<"ours", <<"spi", 0, "ENTER_QPI">>, "first">> \in UpSteps
        /\ <<"first", <<"drive", "SPI">>, "first">> \in UpSteps
        /\ <<"first", <<"spi", 1, "RESET_ENABLE">>, "first">> \in UpSteps
        /\ <<"first", <<"spi", 1, "RESET">>, "first">> \in UpSteps
        /\ <<"first", <<"spi", 1, "ENTER_QPI">>, "both">> \in UpSteps
        /\ <<"both", <<"in_qpi", TRUE>>, "up">> \in UpSteps
    BY <1>1 DEF UpSteps, UpStep, UpContexts, Enters
  <1>4. ASSUME NEW d \in {0, 1} PROVE Leads(UpSteps, "ours", exit_qpi(d), "ours")
    BY <1>1, <1>2, Leads4 DEF exit_qpi
  <1>5. Leads(UpSteps, "ours", exit_if_in_qpi, "ours")
    <2>1. Leads(UpSteps, "ours", exit_qpi(0) \o exit_qpi(1), "ours")
      BY <1>4, LeadsThen
    <2>2. Leads(UpSteps, "ours", << <<"in_qpi", FALSE>> >>, "ours")
      BY <1>1, <1>2, Leads1
    <2> QED BY <2>1, <2>2, LeadsThen, LeadsNowhere DEF exit_if_in_qpi, exit_qpi_both
  <1>6. ASSUME NEW a \in {"ours", "first"}, NEW d \in {0, 1}, a = "first" => d = 1
        PROVE  Leads(UpSteps, a, spi_reset(d), a)
    <2>1. Leads(UpSteps, a, spi(d, "RESET_ENABLE"), a)
      BY <1>1, <1>2, <1>3, <1>6, Leads2 DEF spi
    <2>2. Leads(UpSteps, a, << <<"spi", d, "RESET">> >>, a)
      BY <1>1, <1>2, <1>3, <1>6, Leads1
    <2> QED BY <2>1, <2>2, LeadsThen DEF spi_reset
  <1>7. /\ Leads(UpSteps, "ours", enter_qpi(0), "first")
        /\ Leads(UpSteps, "first", enter_qpi(1), "both")
    BY <1>1, <1>2, <1>3, Leads2 DEF enter_qpi, spi
  <1>8. Leads(UpSteps, "both", << <<"in_qpi", TRUE>> >>, "up")
    BY <1>1, <1>3, Leads1
  <1>9. /\ Leads(UpSteps, "ours", spi_reset(0), "ours")
        /\ Leads(UpSteps, "first", spi_reset(1), "first")
    BY <1>6
  <1>10. Leads(UpSteps, "ours", spi_reset(0) \o enter_qpi(0), "first")
    BY <1>7, <1>9, LeadsThen
  <1>11. Leads(UpSteps, "ours", spi_reset(0) \o enter_qpi(0) \o spi_reset(1), "first")
    BY <1>9, <1>10, LeadsThen
  <1>12. Leads(UpSteps, "ours",
               spi_reset(0) \o enter_qpi(0) \o spi_reset(1) \o enter_qpi(1), "both")
    BY <1>7, <1>11, LeadsThen
  <1>13. Leads(UpSteps, "ours", bring_up_both, "up")
    BY <1>8, <1>12, LeadsThen DEF bring_up_both
  <1> QED BY <1>5, <1>13, LeadsThen

LEMMA UpRecover == Leads(UpSteps, "lost", recover, "usable")
  <1>1. /\ <<"rst_n", 1>> \in Operations /\ <<"expect_idle">> \in Operations
        /\ <<"may_request">> \in Operations /\ <<"bus_req", 1>> \in Operations
        /\ <<"wait", "BUS_GNT">> \in Operations /\ <<"drive", "QPI">> \in Operations
        /\ <<"try">> \in Operations /\ <<"finally">> \in Operations
    BY AreOperations DEF Plain, Levels
  <1>2. /\ <<"lost", <<"rst_n", 1>>, "out">> \in UpSteps
        /\ <<"out", <<"expect_idle">>, "idle">> \in UpSteps
        /\ <<"idle", <<"may_request">>, "idle">> \in UpSteps
        /\ <<"idle", <<"bus_req", 1>>, "asking">> \in UpSteps
        /\ <<"asking", <<"wait", "BUS_GNT">>, "ours">> \in UpSteps
        /\ <<"ours", <<"drive", "QPI">>, "ours">> \in UpSteps
        /\ <<"ours", <<"try">>, "ours">> \in UpSteps
        /\ <<"up", <<"finally">>, "usable">> \in UpSteps
    BY <1>1 DEF UpSteps, UpStep, UpContexts
  <1>3. Leads(UpSteps, "lost", << <<"rst_n", 1>>, <<"expect_idle">> >>, "idle")
    BY <1>1, <1>2, Leads2
  <1>4. Leads(UpSteps, "idle", request_bus("QPI"), "ours")
    BY <1>1, <1>2, Leads4 DEF request_bus
  <1>5. /\ Leads(UpSteps, "ours", << <<"try">> >>, "ours")
        /\ Leads(UpSteps, "up", << <<"finally">> >>, "usable")
    BY <1>1, <1>2, Leads1
  <1>6. Leads(UpSteps, "idle", request_bus("QPI") \o << <<"try">> >>, "ours")
    BY <1>4, <1>5, LeadsThen
  <1>7. Leads(UpSteps, "idle",
              request_bus("QPI") \o << <<"try">> >> \o (exit_if_in_qpi \o bring_up_both), "up")
    BY <1>6, UpBody, LeadsThen
  <1>8. Leads(UpSteps, "idle", granted("QPI", exit_if_in_qpi \o bring_up_both), "usable")
    BY <1>5, <1>7, LeadsThen DEF granted
  <1> QED BY <1>3, <1>8, LeadsThen DEF recover

-------------------------------------------------------------------------------
(***************************************************************************)
(* A recover, step by step.                                                *)
(***************************************************************************)
LEMMA UpAt ==
  ASSUME UpInv, Reports("recover"), todo # <<>>
  PROVE  \E a \in UpContexts, b \in UpContexts :
           UpFact(a) /\ UpStep(a, op, b) /\ Leads(UpSteps, b, Tail(todo), "usable")
  <1>1. PICK a \in UpContexts : UpFact(a) /\ Leads(UpSteps, a, todo, "usable")
    BY DEF UpInv
  <1>2. PICK b : <<a, op, b>> \in UpSteps /\ Leads(UpSteps, b, Tail(todo), "usable")
    BY <1>1, LeadsOn DEF op
  <1> QED BY <1>1, <1>2 DEF UpSteps

\* A call that raises reports nothing.
LEMMA UpFailed ==
  ASSUME SampledInv, todo # <<>>, failed', call' = call PROVE UpInv'
  BY DEF SampledInv, UpInv, Reports

\* A recover goes on from context c.
LEMMA UpOn ==
  ASSUME UpInv, todo # <<>>, UNCHANGED <<call, last, failed>>,
         ASSUME NEW a \in UpContexts, NEW b \in UpContexts, UpFact(a), UpStep(a, op, b),
                Leads(UpSteps, b, Tail(todo), "usable")
         PROVE  \E c \in UpContexts : UpFact(c)' /\ Leads(UpSteps, c, todo', "usable")
  PROVE  UpInv'
  <1>1. Reports("recover")' => Reports("recover")
    BY DEF Reports
  <1> QED BY <1>1, UpAt DEF UpInv

LEMMA UpSetPin ==
  ASSUME UpInv, SetPin PROVE UpInv'
  <1>1. /\ todo # <<>> /\ todo' = Tail(todo) /\ seen' = FALSE
        /\ UNCHANGED <<oe, pads, mode, in_qpi, bus_gnt, done, call, last, failed>>
    BY DEF SetPin, Operation, Done, chip, drive, session
  <1>2. ASSUME NEW a \in UpContexts, NEW b \in UpContexts, UpFact(a), UpStep(a, op, b)
        PROVE  UpFact(b)'
    <2>1. op[1] \in {"ui_start", "bus_req", "zero_ui_in", "rst_n"}
      BY DEF SetPin, Operation
    <2>2. \/ b = "lost"
          \/ b = "out" /\ op[1] = "rst_n" /\ op[2] = 1
          \/ a = "idle" /\ b = "asking" /\ op[1] = "bus_req" /\ op[2] = 1
          \/ a = "handed" /\ b = "dropped" /\ op[1] = "bus_req" /\ op[2] = 0
      BY <1>2, <2>1 DEF UpStep, Enters
    <2>3. CASE b = "lost"
      BY <2>3 DEF UpFact
    <2>4. CASE b = "out" /\ op[1] = "rst_n" /\ op[2] = 1
      <3>1. rst_n' = 1
        BY <2>4 DEF SetPin, Operation
      <3> QED BY <2>4, <3>1 DEF UpFact
    <2>5. CASE op[1] = "bus_req"
      <3>1. bus_req' = op[2] /\ UNCHANGED rst_n
        BY <2>5 DEF SetPin, Operation
      <3>2. CASE a = "idle" /\ b = "asking" /\ op[2] = 1
        BY <1>1, <1>2, <3>1, <3>2 DEF UpFact, OutOfReset
      <3>3. CASE a = "handed" /\ b = "dropped" /\ op[2] = 0
        BY <1>1, <1>2, <3>1, <3>3 DEF UpFact, OutOfReset, Ours, Up, AllInQpi, released
      <3> QED BY <2>2, <2>3, <2>5, <3>2, <3>3
    <2> QED BY <2>2, <2>3, <2>4, <2>5
  <1> QED BY <1>1, <1>2, UpOn

LEMMA UpSetDrive ==
  ASSUME SampledInv, UpInv, SetDrive PROVE UpInv'
  <1>1. /\ todo # <<>>
        /\ UNCHANGED <<rst_n, bus_req, bus_gnt, done, seen, mode, in_qpi, call, last>>
        /\ op[1] \in {"oe", "drive", "release_pins", "restore_spi_pins"}
        /\ op[1] = "drive" => Check(drive_legal)
        /\ op[1] # "drive" => Done
        /\ op[1] = "release_pins" => pads' = NONE /\ oe' = oe
        /\ op[1] = "oe" => oe' = op[2] /\ pads' = pads
    BY DEF SetDrive, Operation, Same, pins, chip, session
  <1>2. CASE failed'
    BY <1>1, <1>2, UpFailed
  <1>3. CASE ~failed'
    <2>1. todo' = Tail(todo) /\ failed' = failed
      BY <1>1, <1>3 DEF Check, Raise, Done
    <2>2. ASSUME NEW a \in UpContexts, NEW b \in UpContexts, UpFact(a), UpStep(a, op, b)
          PROVE  UpFact(b)'
      <3>1. \/ b = "lost"
            \/ a = "ours" /\ b = "ours"
            \/ a = "first" /\ b = "first"
            \/ a = "up" /\ b = "unpadded" /\ op[1] = "release_pins"
            \/ a = "unpadded" /\ b = "handed" /\ op[1] = "oe" /\ op[2] = "HIZ"
        BY <1>1, <2>2 DEF UpStep, Enters
      <3> QED BY <1>1, <2>2, <3>1 DEF UpFact, OutOfReset, Ours, Up, AllInQpi, released
    <2> QED BY <1>1, <2>1, <2>2, UpOn
  <1> QED BY <1>2, <1>3

LEMMA UpFrame ==
  ASSUME ModeInv, UpInv, Frame PROVE UpInv'
  <1>1. /\ todo # <<>> /\ op[1] \in {"spi", "qpi"} /\ todo' = Tail(todo)
        /\ UNCHANGED <<rst_n, bus_req, bus_gnt, done, seen, in_qpi, call, last, failed>>
    BY DEF Frame, Operation, Done, Same, pins, chip, session
  <1>2. /\ mode[0] = "QPI" /\ ~Exits(op) => mode'[0] = "QPI"
        /\ Enters(op, 0) => mode'[0] = "QPI"
        /\ Enters(op, 1) => mode'[1] = "QPI"
    BY FrameModes DEF Devices
  <1>3. ASSUME NEW a \in UpContexts, NEW b \in UpContexts, UpFact(a), UpStep(a, op, b)
        PROVE  UpFact(b)'
    <2>1. \/ b = "lost"
          \/ a = "ours" /\ b = "ours"
          \/ a = "ours" /\ b = "first" /\ Enters(op, 0)
          \/ a = "first" /\ b = "first" /\ op[1] = "spi"
          \/ a = "first" /\ b = "both" /\ Enters(op, 1)
      BY <1>1, <1>3 DEF UpStep
    <2>2. op[1] = "spi" \/ Enters(op, 1) => ~Exits(op)
      BY DEF Exits, Enters
    <2> QED BY <1>1, <1>2, <1>3, <2>1, <2>2 DEF UpFact, OutOfReset, Ours, AllInQpi
  <1> QED BY <1>1, <1>3, UpOn

LEMMA UpGuard ==
  ASSUME SampledInv, UpInv, Guard PROVE UpInv'
  <1>1. /\ todo # <<>> /\ seen
        /\ UNCHANGED <<rst_n, bus_req, bus_gnt, done, seen, oe, pads, mode, in_qpi, call, last>>
        /\ op[1] \in {"may_request", "may_start", "expect_idle", "raise"}
        /\ op[1] = "expect_idle" => Check(port_idle)
        /\ Raise \/ (Done /\ op[1] # "raise")
    BY DEF Guard, Operation, Check, Same, pins, chip, drive, session
  <1>2. CASE failed'
    BY <1>1, <1>2, UpFailed
  <1>3. CASE ~failed'
    <2>1. todo' = Tail(todo) /\ failed' = failed /\ (op[1] = "expect_idle" => port_idle)
          /\ op[1] # "raise"
      BY <1>1, <1>3 DEF Check, Raise, Done
    <2>2. ASSUME NEW a \in UpContexts, NEW b \in UpContexts, UpFact(a), UpStep(a, op, b)
          PROVE  UpFact(b)'
      <3>1. \/ b = "lost"
            \/ a = "out" /\ b = "idle" /\ op[1] = "expect_idle"
            \/ a = "idle" /\ b = "idle"
        BY <1>1, <2>1, <2>2 DEF UpStep, Enters
      <3> QED BY <1>1, <2>1, <2>2, <3>1 DEF UpFact, OutOfReset, port_idle
    <2> QED BY <1>1, <2>1, <2>2, UpOn
  <1> QED BY <1>2, <1>3

LEMMA UpWait ==
  ASSUME UpInv, Wait PROVE UpInv'
  <1>1. /\ todo # <<>> /\ seen /\ op[1] = "wait"
        /\ UNCHANGED <<rst_n, bus_req, bus_gnt, done, seen, oe, pads, mode, in_qpi, call, last,
                       failed>>
        /\ \/ holds[op[2]] /\ todo' = Tail(todo)
           \/ todo' = kill_dma \o << <<"raise">> >>
    BY DEF Wait, Operation, Same, Done, pins, chip, drive, session
  <1>2. CASE todo' = kill_dma \o << <<"raise">> >>
    <2>1. "lost" \in UpContexts /\ UpFact("lost")'
      BY DEF UpContexts, UpFact
    <2> QED BY <1>1, <1>2, <2>1, UpRaise, UpOn
  <1>3. CASE holds[op[2]] /\ todo' = Tail(todo)
    <2>1. ASSUME NEW a \in UpContexts, NEW b \in UpContexts, UpFact(a), UpStep(a, op, b)
          PROVE  UpFact(b)'
      <3>1. \/ b = "lost"
            \/ a = "asking" /\ b = "ours" /\ op[2] = "BUS_GNT"
            \/ a = "dropped" /\ b = "usable" /\ op[2] = "BUS_GNT low"
        BY <1>1, <2>1 DEF UpStep, Enters
      <3>2. (holds["BUS_GNT"] => bus_gnt = 1) /\ (holds["BUS_GNT low"] => bus_gnt = 0)
        BY DEF holds
      <3> QED BY <1>1, <1>3, <2>1, <3>1, <3>2 DEF UpFact, OutOfReset, Ours, Up, AllInQpi, released
    <2> QED BY <1>1, <1>3, <2>1, UpOn
  <1> QED BY <1>1, <1>2, <1>3

LEMMA UpPoll ==
  ASSUME UpInv, Poll \/ Bookkeeping \/ WaitBusy PROVE UpInv'
  <1>1. /\ todo # <<>>
        /\ UNCHANGED <<rst_n, bus_req, bus_gnt, done, seen, mode, call, last, failed>>
        /\ op[1] \in {"poll", "record_poll", "forget_start", "new_objects", "in_qpi", "ready",
                      "clear_state", "wait_busy"}
        /\ op[1] = "in_qpi" => in_qpi' = op[2]
        /\ op[1] # "wait_busy" => todo' = Tail(todo)
        /\ op[1] = "wait_busy" => todo' = after_ack(saw_busy') \o Tail(todo)
    BY DEF Poll, Bookkeeping, WaitBusy, Operation, Same, Done, pins, chip
  <1>2. ASSUME NEW a \in UpContexts, NEW b \in UpContexts, UpFact(a), UpStep(a, op, b),
               Leads(UpSteps, b, Tail(todo), "usable")
        PROVE  UpFact(b)' /\ Leads(UpSteps, b, todo', "usable")
    <2>1. \/ a = "lost" /\ b = "lost"
          \/ a = "ours" /\ b = "ours" /\ op[1] = "in_qpi"
          \/ a = "both" /\ b = "up" /\ op[1] = "in_qpi" /\ op[2]
      BY <1>1, <1>2 DEF UpStep, Enters
    <2>2. CASE op[1] = "wait_busy"
      <3>1. after_ack(saw_busy') \in Seq(Tame)
        BY TamePrograms DEF after_ack
      <3>2. Leads(UpSteps, "lost", after_ack(saw_busy'), "lost")
        BY <3>1, UpLost
      <3> QED BY <1>1, <1>2, <2>1, <2>2, <3>2, LeadsThen DEF UpFact
    <2>3. CASE op[1] # "wait_busy"
      BY <1>1, <1>2, <2>1, <2>3 DEF UpFact, OutOfReset, Ours, Up, AllInQpi
    <2> QED BY <2>2, <2>3
  <1> QED BY <1>1, <1>2, UpOn

LEMMA UpTryFinally ==
  ASSUME UpInv, TryFinally PROVE UpInv'
  <1>1. /\ todo # <<>>
        /\ UNCHANGED <<rst_n, bus_req, bus_gnt, done, seen, mode, in_qpi, call, last, failed>>
        /\ \/ op[1] = "try" /\ todo' = Tail(todo)
           \/ op[1] = "finally" /\ todo' = release_bus \o Tail(todo)
    BY DEF TryFinally, Operation, Same, pins, chip, session
  <1>2. ASSUME NEW a \in UpContexts, NEW b \in UpContexts, UpFact(a), UpStep(a, op, b),
               Leads(UpSteps, b, Tail(todo), "usable")
        PROVE  UpFact(a)' /\ Leads(UpSteps, a, todo', "usable")
    <2>1. \/ a = "lost" /\ b = "lost"
          \/ a = "ours" /\ b = "ours" /\ op[1] = "try"
          \/ a = "up" /\ b = "usable" /\ op[1] = "finally"
      BY <1>1, <1>2 DEF UpStep, Enters
    <2>2. UpFact(a)'
      BY <1>1, <1>2, <2>1 DEF UpFact, OutOfReset, Ours, Up, AllInQpi
    <2>3. CASE op[1] = "try"
      BY <1>1, <1>2, <2>1, <2>2, <2>3
    <2>4. CASE op[1] = "finally"
      <3>1. Leads(UpSteps, a, release_bus, b)
        BY <2>1, <2>4, UpLost, UpRelease, TamePrograms
      <3> QED BY <1>1, <1>2, <2>2, <2>4, <3>1, LeadsThen
    <2> QED BY <1>1, <2>3, <2>4
  <1> QED BY <1>1, <1>2, UpOn

LEMMA UpClk ==
  ASSUME SampledInv, UpInv, Clk PROVE UpInv'
  <1>1. /\ seen' /\ Chip!Next
        /\ UNCHANGED <<rst_n, bus_req, oe, pads, mode, in_qpi, call, todo, last, failed>>
    BY DEF Clk, pins, drive, session
  <1>2. rst_n = 1 =>
          /\ bus_req = 0 => bus_gnt' = 0
          /\ bus_req = 1 /\ bus_gnt = 1 => bus_gnt' = 1
          /\ done = 1 /\ (bus_req = 1 \/ bus_gnt = 1 \/ start # 1) => done' = 1
    BY <1>1 DEF Chip!Next, Chip!Reset, Chip!Grant, Chip!Transfer, Chip!Return, Chip!Start,
           Chip!StayIdle, Chip!Run, Chip!Free, Chip!port
  <1>3. seen /\ rst_n = 1 => start # 1
    BY DEF SampledInv, start
  <1>4. ASSUME NEW a \in UpContexts, UpFact(a) PROVE UpFact(a)'
    BY <1>1, <1>2, <1>3, <1>4 DEF UpFact, OutOfReset, Ours, Up, AllInQpi, released, UpContexts
  <1> QED BY <1>1, <1>4 DEF UpInv, Reports

LEMMA UpReturn ==
  ASSUME UpInv, Return PROVE UpInv'
  <1>1. /\ call # NONE /\ todo = <<>> /\ todo' = <<>> /\ call' = NONE /\ last' = <<call, ~failed>>
        /\ UNCHANGED <<rst_n, bus_req, bus_gnt, done, seen, oe, pads, mode, in_qpi>>
    BY DEF Return, pins, chip, drive, session
  <1>2. ASSUME Reports("recover")' PROVE UpFact("usable")'
    <2>1. call = "recover" /\ ~failed
      BY <1>1, <1>2 DEF Reports, NONE
    <2>2. UpFact("usable")
      BY <1>1, <2>1, LeadsNowhere DEF UpInv, Reports
    <2> QED BY <1>1, <2>2 DEF UpFact, OutOfReset, Up, AllInQpi, released
  <1> QED BY <1>1, <1>2, LeadsNowhere DEF UpInv, UpContexts

LEMMA UpCall ==
  ASSUME Call PROVE UpInv'
  <1>1. CASE Begin("recover", recover)
    <2>1. todo' = recover /\ UpFact("lost")'
      BY <1>1 DEF Begin, UpFact
    <2> QED BY <2>1, UpRecover DEF UpInv, UpContexts
  <1>2. ASSUME NEW name, NEW program, name \notin {NONE, "recover"}, Begin(name, program)
        PROVE  UpInv'
    BY <1>2 DEF Begin, UpInv, Reports
  <1> QED BY <1>1, <1>2 DEF Call, NONE

LEMMA UpNext ==
  ASSUME SampledInv, ModeInv, UpInv, [Next]_vars PROVE UpInv'
  <1>1. CASE Interrupt
    BY <1>1, UpFailed DEF Interrupt, Raise
  <1>2. CASE UNCHANGED vars
    <2>1. UNCHANGED <<rst_n, bus_req, bus_gnt, done, seen, oe, pads, mode, in_qpi, call, todo, last,
                      failed>>
      BY <1>2 DEF vars, pins, chip, drive, session, progress
    <2>2. \A a : UpFact(a)' <=> UpFact(a)
      BY <2>1 DEF UpFact, OutOfReset, Ours, Up, AllInQpi, released
    <2> QED BY <2>1, <2>2 DEF UpInv, Reports
  <1> QED BY <1>1, <1>2, UpSetPin, UpSetDrive, UpFrame, UpGuard, UpWait, UpPoll, UpTryFinally,
             UpClk, UpReturn, UpCall DEF Next, Execute

-------------------------------------------------------------------------------
(***************************************************************************)
(* A reset_dma, and the recover after it.                                  *)
(***************************************************************************)
Low == {o \in Operations : o[1] # "ui_start"}

LEMMA LowTame ==
  ASSUME NEW s, s \in Seq(Tame) \/ s \in Seq(Low) PROVE Leads(LowSteps, "low", s, "low")
  <1>1. /\ \A o \in Tame : <<"low", o, "low">> \in LowSteps
        /\ \A o \in Low : <<"low", o, "low">> \in LowSteps
    BY DEF Tame, Calm, Low, LowSteps, LowStep, LowContexts
  <1>2. Low \subseteq Operations
    BY DEF Low
  <1> QED BY <1>1, <1>2, TameOperations, LeadsStay

LEMMA LowKill ==
  ASSUME NEW a \in LowContexts
  PROVE  /\ Leads(LowSteps, a, kill_dma, "low")
         /\ Leads(LowSteps, a, kill_dma \o << <<"raise">> >>, "low")
  <1>1. /\ <<"release_pins">> \in Operations /\ <<"oe", "HIZ">> \in Operations
        /\ <<"zero_ui_in">> \in Operations /\ <<"rst_n", 0>> \in Operations
        /\ <<"forget_start">> \in Operations
    BY AreOperations DEF Plain
  <1>2. /\ <<a, <<"release_pins">>, a>> \in LowSteps /\ <<a, <<"oe", "HIZ">>, a>> \in LowSteps
        /\ <<a, <<"zero_ui_in">>, "low">> \in LowSteps
        /\ <<"low", <<"rst_n", 0>>, "low">> \in LowSteps
        /\ <<"low", <<"oe", "HIZ">>, "low">> \in LowSteps
        /\ <<"low", <<"forget_start">>, "low">> \in LowSteps
    BY <1>1 DEF LowSteps, LowStep, LowContexts
  <1>3. Leads(LowSteps, a, hiz, a)
    BY <1>1, <1>2, Leads2 DEF hiz
  <1>4. Leads(LowSteps, a,
              << <<"zero_ui_in">>, <<"rst_n", 0>>, <<"oe", "HIZ">>, <<"forget_start">> >>, "low")
    BY <1>1, <1>2, Leads4
  <1>5. Leads(LowSteps, a, kill_dma, "low")
    BY <1>3, <1>4, LeadsThen DEF kill_dma
  <1>6. << <<"raise">> >> \in Seq(Tame)
    BY TameOperations DEF Plain
  <1> QED BY <1>5, <1>6, LowTame, LeadsThen

LEMMA LowRecover == Leads(LowSteps, "low", recover, "low")
  <1>1. /\ \A name \in Plain : <<name>> \in Low
        /\ <<"rst_n", 1>> \in Low /\ <<"drive", "SPI">> \in Low /\ <<"drive", "QPI">> \in Low
        /\ \A v \in BOOLEAN : <<"in_qpi", v>> \in Low
        /\ \A d \in Devices, cmd \in Commands :
             <<"spi", d, cmd>> \in Low /\ <<"qpi", d, cmd>> \in Low
    BY AreOperations DEF Low, Plain
  <1>2. ASSUME NEW d \in Devices
        PROVE  /\ Leads(LowSteps, "low", exit_qpi(d), "low")
               /\ Leads(LowSteps, "low", enter_qpi(d), "low")
    <2>1. /\ <<"restore_spi_pins">> \in Low /\ <<"qpi", d, "EXIT_QPI">> \in Low
          /\ <<"spi", d, "ENTER_QPI">> \in Low
      BY <1>1 DEF Plain, Commands
    <2>2. exit_qpi(d) \in Seq(Low) /\ enter_qpi(d) \in Seq(Low)
      BY <1>1, <2>1 DEF exit_qpi, enter_qpi, spi
    <2> QED BY <2>2, LowTame
  <1>3. /\ Leads(LowSteps, "low", << <<"in_qpi", TRUE>> >>, "low")
        /\ Leads(LowSteps, "low", << <<"in_qpi", FALSE>> >>, "low")
        /\ Leads(LowSteps, "low", << <<"rst_n", 1>>, <<"expect_idle">> >>, "low")
    <2>1. /\ <<"in_qpi", TRUE>> \in Low /\ <<"in_qpi", FALSE>> \in Low
          /\ <<"rst_n", 1>> \in Low /\ <<"expect_idle">> \in Low
      BY <1>1 DEF Plain
    <2>2. \A x, y \in Low : <<x>> \in Seq(Low) /\ <<x, y>> \in Seq(Low)
      OBVIOUS
    <2> QED BY <2>1, <2>2, LowTame
  <1>4. /\ Leads(LowSteps, "low", spi_reset(0), "low")
        /\ Leads(LowSteps, "low", spi_reset(1), "low")
        /\ Leads(LowSteps, "low", request_bus("QPI"), "low")
        /\ Leads(LowSteps, "low", << <<"try">> >>, "low")
        /\ Leads(LowSteps, "low", << <<"finally">> >>, "low")
    BY LowTame, TamePrograms DEF Devices
  <1>5. Leads(LowSteps, "low", bring_up_both, "low")
    <2>1. Leads(LowSteps, "low", spi_reset(0) \o enter_qpi(0), "low")
      BY <1>2, <1>4, LeadsThen DEF Devices
    <2>2. Leads(LowSteps, "low", spi_reset(0) \o enter_qpi(0) \o spi_reset(1), "low")
      BY <1>4, <2>1, LeadsThen
    <2>3. Leads(LowSteps, "low",
                spi_reset(0) \o enter_qpi(0) \o spi_reset(1) \o enter_qpi(1), "low")
      BY <1>2, <2>2, LeadsThen DEF Devices
    <2> QED BY <1>3, <2>3, LeadsThen DEF bring_up_both
  <1>6. Leads(LowSteps, "low", exit_if_in_qpi, "low")
    <2>1. Leads(LowSteps, "low", exit_qpi(0) \o exit_qpi(1), "low")
      BY <1>2, LeadsThen DEF Devices
    <2> QED BY <1>3, <2>1, LeadsThen, LeadsNowhere DEF exit_if_in_qpi, exit_qpi_both
  <1>7. Leads(LowSteps, "low", exit_if_in_qpi \o bring_up_both, "low")
    BY <1>5, <1>6, LeadsThen
  <1>8. Leads(LowSteps, "low", request_bus("QPI") \o << <<"try">> >>, "low")
    BY <1>4, LeadsThen
  <1>9. Leads(LowSteps, "low",
              request_bus("QPI") \o << <<"try">> >> \o (exit_if_in_qpi \o bring_up_both), "low")
    BY <1>7, <1>8, LeadsThen
  <1>10. Leads(LowSteps, "low", granted("QPI", exit_if_in_qpi \o bring_up_both), "low")
    BY <1>4, <1>9, LeadsThen DEF granted
  <1> QED BY <1>3, <1>10, LeadsThen DEF recover

LEMMA LowSetPin ==
  ASSUME LowInv, SetPin PROVE LowInv'
  <1>1. todo # <<>> /\ todo' = Tail(todo) /\ UNCHANGED <<call, last, failed>>
    BY DEF SetPin, Operation, Done
  <1>2. /\ op[1] = "ui_start" => ui_start' = op[2]
        /\ op[1] = "zero_ui_in" => ui_start' = 0
        /\ op[1] \notin {"ui_start", "zero_ui_in"} => ui_start' = ui_start
    BY DEF SetPin, Operation
  <1>3. ASSUME NEW a \in LowContexts, LowFact(a), Leads(LowSteps, a, todo, "low")
        PROVE  \E b \in LowContexts : /\ LowFact(b)' /\ Leads(LowSteps, b, todo', "low")
                                      /\ a = "low" => b = "low"
    <2>1. PICK b : <<a, op, b>> \in LowSteps /\ Leads(LowSteps, b, Tail(todo), "low")
      BY <1>1, <1>3, LeadsOn DEF op
    <2>2. b \in LowContexts /\ LowStep(a, op, b)
      BY <2>1 DEF LowSteps
    <2>3. LowFact(b)'
      BY <1>2, <1>3, <2>2 DEF LowFact, LowStep
    <2> QED BY <1>1, <2>1, <2>2, <2>3 DEF LowStep
  <1>4. ASSUME call' = "reset_dma", ~failed'
        PROVE  \E b \in LowContexts : LowFact(b)' /\ Leads(LowSteps, b, todo', "low")
    BY <1>1, <1>3, <1>4 DEF LowInv
  <1>5. ASSUME last' = <<"reset_dma", TRUE>>
        PROVE  ui_start' = 0 /\ Leads(LowSteps, "low", todo', "low")
    <2>1. ui_start = 0 /\ Leads(LowSteps, "low", todo, "low")
      BY <1>1, <1>5 DEF LowInv
    <2>2. "low" \in LowContexts /\ LowFact("low")
      BY <2>1 DEF LowContexts, LowFact
    <2>3. LowFact("low")' /\ Leads(LowSteps, "low", todo', "low")
      BY <1>3, <2>1, <2>2
    <2> QED BY <2>3 DEF LowFact
  <1> QED BY <1>4, <1>5 DEF LowInv

LEMMA LowOther ==
  ASSUME LowInv, SampledInv,
         SetDrive \/ Frame \/ Guard \/ Wait \/ Poll \/ WaitBusy \/ Bookkeeping \/ TryFinally
  PROVE  LowInv'
  <1>1. /\ todo # <<>> /\ UNCHANGED <<ui_start, call, last>>
        /\ op[1] \notin {"ui_start", "zero_ui_in"}
        /\ \/ Raise
           \/ /\ UNCHANGED failed
              /\ \/ todo' = kill_dma \o << <<"raise">> >>
                 \/ todo' = Tail(todo)
                 \/ \E s \in Seq(Tame) : todo' = s \o Tail(todo)
    BY OtherOperations, TamePrograms
  <1>2. ASSUME NEW a \in LowContexts, LowFact(a), Leads(LowSteps, a, todo, "low"), ~Raise
        PROVE  \E b \in LowContexts : /\ LowFact(b)' /\ Leads(LowSteps, b, todo', "low")
                                      /\ a = "low" => b = "low"
    <2>1. PICK b : <<a, op, b>> \in LowSteps /\ Leads(LowSteps, b, Tail(todo), "low")
      BY <1>1, <1>2, LeadsOn DEF op
    <2>2. a = b
      BY <1>1, <2>1 DEF LowSteps, LowStep
    <2>3. LowFact(a)'
      BY <1>1, <1>2 DEF LowFact
    <2>4. ASSUME NEW s \in Seq(Tame), todo' = s \o Tail(todo)
          PROVE  Leads(LowSteps, a, todo', "low")
      <3>1. \A o \in Tame : <<a, o, a>> \in LowSteps
        BY DEF Tame, Calm, LowSteps, LowStep
      <3>2. Leads(LowSteps, a, s, a)
        BY <3>1, LeadsStay, TameOperations
      <3> QED BY <2>1, <2>2, <2>4, <3>2, LeadsThen
    <2> QED BY <1>1, <1>2, <2>1, <2>2, <2>3, <2>4, LowKill
  <1>3. ASSUME call' = "reset_dma", ~failed'
        PROVE  \E b \in LowContexts : LowFact(b)' /\ Leads(LowSteps, b, todo', "low")
    <2>1. ~Raise
      BY <1>3 DEF Raise
    <2>2. UNCHANGED <<failed, call>>
      BY <1>1, <2>1
    <2>3. call = "reset_dma" /\ ~failed
      BY <1>3, <2>2
    <2> QED BY <1>2, <2>1, <2>3 DEF LowInv
  <1>4. ASSUME last' = <<"reset_dma", TRUE>>
        PROVE  ui_start' = 0 /\ Leads(LowSteps, "low", todo', "low")
    <2>1. ui_start = 0 /\ Leads(LowSteps, "low", todo, "low")
      BY <1>1, <1>4 DEF LowInv
    <2>2. "low" \in LowContexts /\ LowFact("low")
      BY <2>1 DEF LowContexts, LowFact
    <2>3. CASE Raise
      <3>1. \E s \in Seq(Tame) : todo' = s
        BY <2>3, RaiseTodo
      <3> QED BY <1>1, <2>1, <3>1, LowTame
    <2>4. CASE ~Raise
      BY <1>1, <1>2, <2>1, <2>2, <2>4
    <2> QED BY <2>3, <2>4
  <1> QED BY <1>3, <1>4 DEF LowInv

LEMMA LowCall ==
  ASSUME SampledInv, LowInv, Call PROVE LowInv'
  <1>1. CASE Begin("reset_dma", kill_dma)
    <2>1. call' = "reset_dma" /\ todo' = kill_dma /\ last' = <<NONE, TRUE>>
      BY <1>1 DEF Begin
    <2>2. "high" \in LowContexts /\ LowFact("high")'
      BY DEF LowContexts, LowFact
    <2>3. last' # <<"reset_dma", TRUE>>
      BY <2>1 DEF NONE
    <2> QED BY <2>1, <2>2, <2>3, LowKill DEF LowInv
  <1>2. CASE Begin("recover", recover)
    <2>1. call' = "recover" /\ todo' = recover /\ UNCHANGED <<last, ui_start>>
      BY <1>2 DEF Begin, pins
    <2> QED BY <2>1, LowRecover DEF LowInv
  <1>3. ASSUME NEW name, NEW program, name \notin {"reset_dma", "recover"}, Begin(name, program)
        PROVE  LowInv'
    <2>1. call' # "reset_dma" /\ last' # <<"reset_dma", TRUE>>
      BY <1>3 DEF Begin, NONE
    <2> QED BY <2>1 DEF LowInv
  <1> QED BY <1>1, <1>2, <1>3 DEF Call

LEMMA LowReturn ==
  ASSUME LowInv, Return PROVE LowInv'
  <1>1. /\ todo = <<>> /\ todo' = <<>> /\ call' = NONE /\ last' = <<call, ~failed>>
        /\ UNCHANGED ui_start
    BY DEF Return, pins
  <1>2. ASSUME last' = <<"reset_dma", TRUE>> PROVE ui_start' = 0
    <2>1. <<call, ~failed>> = <<"reset_dma", TRUE>>
      BY <1>1, <1>2
    <2>2. call = "reset_dma" /\ (~failed) = TRUE
      BY <2>1, Zenon
    <2> QED BY <1>1, <2>2, LeadsNowhere DEF LowInv, LowFact
  <1> QED BY <1>1, <1>2, LeadsNowhere DEF LowInv, NONE

LEMMA LowNext ==
  ASSUME SampledInv, LowInv, [Next]_vars PROVE LowInv'
  <1>1. CASE Interrupt
    <2>1. failed' /\ UNCHANGED <<ui_start, last>> /\ \E s \in Seq(Tame) : todo' = s
      BY <1>1, RaiseTodo DEF Interrupt, Raise, pins
    <2> QED BY <2>1, LowTame DEF LowInv
  <1>2. CASE Clk \/ UNCHANGED vars
    <2>1. UNCHANGED <<ui_start, call, todo, last, failed>>
      BY <1>2 DEF Clk, vars, pins, progress
    <2> QED BY <2>1 DEF LowInv, LowFact
  <1> QED BY <1>1, <1>2, LowSetPin, LowOther, LowReturn, LowCall DEF Next, Execute

-------------------------------------------------------------------------------
(***************************************************************************)
(* The inductive invariant, and what follows from it.                      *)
(***************************************************************************)
LEMMA IInvInit == Init => IInv
  <1> SUFFICES ASSUME Init PROVE IInv
    OBVIOUS
  <1>1. /\ rst_n = 1 /\ ui_start = 0 /\ bus_req = 0 /\ start_d = 0 /\ done = 1 /\ bus_gnt = 0
        /\ oe = "HIZ" /\ pads = NONE /\ mode = [d \in Devices |-> "SPI"] /\ in_qpi = FALSE
        /\ call = NONE /\ todo = <<>> /\ seen /\ last = <<NONE, TRUE>> /\ ~cut
    BY DEF Init, Chip!Init
  <1>2. \A name \in {"recover", "start_and_wait", "wait_idle"} : ~Reports(name)
    BY <1>1 DEF Reports, NONE
  <1>3. BusInv
    <2>1. "idle" \in BusContexts /\ "idle" \in BusEnd /\ BusFact("idle")
      BY <1>1 DEF BusContexts, BusEnd, BusFact, Quiet, released
    <2> QED BY <1>1, <2>1, LeadsNowhere DEF BusInv
  <1>4. ModeInv
    <2>1. "truthful" \in ModeContexts /\ ModeFact("truthful")
      BY <1>1 DEF ModeContexts, ModeFact
    <2> QED BY <1>1, <2>1, LeadsNowhere DEF ModeInv
  <1>5. BegunInv /\ UpInv
    BY <1>2 DEF BegunInv, UpInv
  <1>6. LowInv
    BY <1>1 DEF LowInv, NONE
  <1> QED BY <1>3, <1>4, <1>5, <1>6, SampledInit DEF IInv

LEMMA IInvNext == IInv /\ [Next]_vars => IInv'
  BY SampledNext, BusNext, ModeNext, BegunNext, UpNext, LowNext DEF IInv

LEMMA Invariance == Spec => []IInv
  BY IInvInit, IInvNext, PTL DEF Spec

\* The microcontroller drives the QSPI pins only with the bus: request_bus waits for the
\* grant before it drives and release_bus lets go before it drops the request, whichever
\* call they are part of and whatever it raises in between.
THEOREM DriveIsLegal == Spec => []DriveLegal
  <1>1. IInv => DriveLegal
    <2> SUFFICES ASSUME IInv, ~cut PROVE HizUnlessGranted
      BY DEF DriveLegal
    <2>1. PICK a \in BusContexts : BusFact(a)
      BY DEF IInv, BusInv
    <2>2. released \/ Owned
      BY <2>1 DEF BusFact, BusContexts, Quiet
    <2> QED BY <2>2 DEF HizUnlessGranted, Owned
  <1> QED BY <1>1, Invariance, PTL

\* However a call ends, the bus is the chip's again and START is low: a call's list
\* leads from there back to there, and so does what a timeout puts in its place.
THEOREM BusIsReturned == Spec => []BusReturned
  <1>1. IInv => BusReturned
    <2> SUFFICES ASSUME IInv, call = NONE, ~cut
                 PROVE  released /\ bus_req = 0 /\ bus_gnt = 0 /\ ui_start = 0
      BY DEF BusReturned
    <2>1. todo = <<>>
      BY DEF IInv, SampledInv
    <2>2. PICK a \in BusEnd : BusFact(a)
      BY <2>1, LeadsNowhere DEF IInv, BusInv
    <2> QED BY <2>2 DEF BusEnd, BusFact, Quiet
  <1> QED BY <1>1, Invariance, PTL

\* Whenever the chip has the bus, in_qpi of the session is true of both devices: it is
\* set after both have entered QPI and cleared before the bus goes back.
THEOREM ModesAreTruthful == Spec => []InQpiTruthful
  <1>1. IInv => InQpiTruthful
    <2> SUFFICES ASSUME IInv, ~cut, in_qpi, bus_gnt = 0 PROVE AllInQpi
      BY DEF InQpiTruthful, AllInQpi, Devices
    <2>1. PICK a \in ModeContexts : ModeFact(a)
      BY DEF IInv, ModeInv
    <2> QED BY <2>1 DEF ModeFact, ModeContexts, Owned
  <1> QED BY <1>1, Invariance, PTL

\* A wait_idle that returns leaves the chip idle, and after a start_and_wait the chain
\* has begun, unless the chip is in reset.
THEOREM IdleIsReported == Spec => []IdleReported
  <1>1. IInv => IdleReported
    <2> SUFFICES ASSUME IInv, call = NONE, ~cut PROVE IdleReported
      BY DEF IdleReported
    <2>1. todo = <<>>
      BY DEF IInv, SampledInv
    <2>2. ASSUME Reports("wait_idle") \/ Reports("start_and_wait") PROVE BusFact("idle")
      BY <2>1, <2>2, LeadsNowhere DEF IInv, BusInv, BusEnd
    <2>3. last = <<"wait_idle", TRUE>> => done = 1
      BY <2>2 DEF Reports, BusFact
    <2>4. ASSUME last = <<"start_and_wait", TRUE>> PROVE done = 1 /\ (began \/ rst_n = 0)
      <3>1. Reports("start_and_wait")
        BY <2>4 DEF Reports
      <3>2. BegunFact("begun")
        BY <2>1, <3>1, LeadsNowhere DEF IInv, BegunInv
      <3> QED BY <2>2, <3>1, <3>2 DEF BusFact, BegunFact
    <2> QED BY <2>3, <2>4 DEF IdleReported
  <1> QED BY <1>1, Invariance, PTL

\* A recover that returns leaves a usable session, whatever was cut off, timed out or
\* refused before it: nothing is assumed of the state in which it is called.
THEOREM RecoverIsUsable == Spec => []RecoveredIsUsable
  <1>1. IInv => RecoveredIsUsable
    <2> SUFFICES ASSUME IInv, call = NONE, last = <<"recover", TRUE>> PROVE UpFact("usable")
      BY DEF RecoveredIsUsable, UpFact, Up, OutOfReset, AllInQpi, Devices
    <2>1. todo = <<>> /\ Reports("recover")
      BY DEF IInv, SampledInv, Reports
    <2> QED BY <2>1, LeadsNowhere DEF IInv, UpInv
  <1> QED BY <1>1, Invariance, PTL

\* No START that pulse_start lets through is lost by a chip out of reset.
THEOREM StartIsTaken == Spec => StartTaken
  <1>1. IInv /\ [Next]_vars => [~cut /\ Clk /\ start = 1 /\ rst_n = 1 => done = 1 /\ done' = 0]_vars
    <2> SUFFICES ASSUME IInv, ~cut, Clk, start = 1, rst_n = 1 PROVE done = 1 /\ done' = 0
      OBVIOUS
    <2>1. PICK a \in BusContexts : BusFact(a)
      BY DEF IInv, BusInv
    <2>2. ui_start = 1 /\ start_d = 0
      BY DEF start
    <2>3. a = "started"
      BY <2>1, <2>2 DEF BusFact, BusContexts, Quiet, Owned
    <2>4. done = 1 /\ bus_req = 0 /\ bus_gnt = 0
      BY <2>1, <2>2, <2>3 DEF BusFact, IInv, SampledInv
    <2> QED BY <2>4 DEF Clk, Chip!Next, Chip!Reset, Chip!Grant, Chip!Transfer, Chip!Return,
           Chip!Start, Chip!StayIdle, Chip!Run, Chip!Free
  <1> QED BY <1>1, Invariance, PTL DEF Spec, StartTaken

=============================================================================
