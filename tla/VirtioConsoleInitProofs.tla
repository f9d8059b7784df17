----------------------- MODULE VirtioConsoleInitProofs -----------------------
(***************************************************************************)
(* VirtioConsoleInit for any features, queue size and device: DRIVER_OK is *)
(* set on a completely configured device only, and the result of           *)
(* virtio_console_init agrees with the status register.                    *)
(***************************************************************************)
EXTENDS VirtioConsole, TLAPS

Steps == {"fill", "identity", "reset", "acknowledge", "driver", "loaded", "features",
          "negotiated", "features_ok", "accepted", "queue", "addresses", "enable",
          "driver_ok", "live", "ready", "done"}

StatusBits == {"ACKNOWLEDGE", "DRIVER", "FEATURES_OK", "DRIVER_OK", "FAILED", "NEEDS_RESET"}

(* The values of the registers and of the driver's variables.              *)
TypeOK ==
  /\ dev \in Devices
  /\ Status \subseteq StatusBits
  /\ DriverFeatures \subseteq Features /\ negotiated_feature_bits \subseteq Features
  /\ QueueSel \in Vqs /\ QueueReady \subseteq Vqs
  /\ QueueAddr \in [Vqs -> Vqs \cup {None}]
  /\ ready \in BOOLEAN /\ ret \in BOOLEAN
  /\ pc \in Steps /\ i \in 0 .. 1
  /\ rxOffered \in Nat

(* The stages of mmio_init.                                                *)
Over        == {"ready", "done"}
Starting    == {"fill", "identity"}
Greeting    == {"reset", "acknowledge", "driver", "loaded"}
Negotiating == {"features", "negotiated", "features_ok", "accepted"}
Queueing    == {"queue", "addresses", "enable"}
Finishing   == {"driver_ok", "live"}

(* A failed check ends mmio_init, and nothing else writes FAILED;          *)
(* DRIVER_OK is written at the end.                                        *)
ResultInv ==
  /\ pc \notin Over => "FAILED" \notin Status
  /\ pc \notin Over \cup {"live"} => "DRIVER_OK" \notin Status
  /\ pc \in Over => /\ ret <=> "FAILED" \notin Status
                    /\ ret => "DRIVER_OK" \in Status

(* The features of the words that the loop has gone through.               *)
FeatureInv ==
  /\ DriverFeatures = negotiated_feature_bits
  /\ pc \in Starting \cup Greeting => DriverFeatures = {}
  /\ pc = "features" =>
       DriverFeatures = {f \in dev.offers \cap Features : f[1] < i}
  /\ pc = "negotiated" => DriverFeatures = dev.offers \cap Features
  /\ pc \in {"features_ok", "accepted"} \cup Queueing \cup Finishing =>
       DriverFeatures = Features /\ Features \subseteq dev.offers
  /\ pc \in Queueing \cup Finishing => "FEATURES_OK" \in Status

(* The queues that the loop has set up.                                    *)
QueueInv ==
  /\ pc \in Starting \cup Greeting \cup Negotiating => QueueReady = {}
  /\ pc \in Queueing =>
       QueueReady = {q \in Vqs : q < i} /\ \A q \in Vqs : q < i => QueueAddr[q] = q
  /\ pc \in {"addresses", "enable"} => QueueSel = i
  /\ pc = "enable" => QueueAddr[i] = i
  /\ pc \in Finishing => QueueReady = Vqs /\ \A q \in Vqs : QueueAddr[q] = q

(* The device is a console and all receive buffers are offered.            *)
StageInv ==
  /\ pc \notin Starting \cup Over => dev.console
  /\ pc # "fill" => rxOffered = VIRTQ_SIZE

IndInv ==
  TypeOK /\ ResultInv /\ FeatureInv /\ QueueInv /\ StageInv /\ DriverOkMeansConfigured

-----------------------------------------------------------------------------
LEMMA PoolBuffers == PoolSize \div RX_BUFFER_SIZE = VIRTQ_SIZE
<1>1. ASSUME NEW a \in Nat, NEW b \in Nat \ {0} PROVE (a * b) \div b = a
  BY Z3
<1> QED
  BY <1>1, InitAssumption

LEMMA InitInv == Init => IndInv
<1> SUFFICES ASSUME Init PROVE IndInv
  OBVIOUS
<1>1. TypeOK
  <2>1. QueueAddr \in [Vqs -> Vqs \cup {None}]
    BY DEF Init
  <2>2. QueueSel \in Vqs /\ i \in 0 .. 1
    BY InitAssumption DEF Init, Vqs
  <2> QED
    BY <2>1, <2>2 DEF Init, TypeOK, Steps
<1>2. ResultInv /\ FeatureInv /\ QueueInv /\ StageInv /\ DriverOkMeansConfigured
  BY DEF Init, ResultInv, FeatureInv, QueueInv, StageInv, DriverOkMeansConfigured, Over,
         Starting, Greeting, Negotiating, Queueing, Finishing
<1> QED
  BY <1>1, <1>2 DEF IndInv

-----------------------------------------------------------------------------
(* A failed check, at any step after the first and before DRIVER_OK is     *)
(* read back.                                                              *)
LEMMA FailKept ==
  ASSUME IndInv, Fail, pc \notin Over \cup {"fill"}, QueueSel' \in Vqs,
         UNCHANGED <<dev, DriverFeatures, QueueReady, QueueAddr,
                     negotiated_feature_bits, ready, rxOffered>>
  PROVE  IndInv'
<1> USE DEF IndInv
<1>1. Status' = Status \cup {"FAILED"} /\ ret' = FALSE /\ pc' = "ready" /\ UNCHANGED i
  BY DEF Fail, SetStatus
<1>3. TypeOK'
  BY <1>1 DEF TypeOK, StatusBits, Steps
<1>4. ResultInv'
  BY <1>1 DEF ResultInv, Over
<1>5. FeatureInv' /\ QueueInv' /\ StageInv'
  BY <1>1 DEF FeatureInv, QueueInv, StageInv, Over, Starting, Greeting, Negotiating,
              Queueing, Finishing
<1>6. DriverOkMeansConfigured'
  BY <1>1 DEF DriverOkMeansConfigured
<1> QED
  BY <1>3, <1>4, <1>5, <1>6

(* A check that passes: the driver goes on to the next step.               *)
LEMMA PassKept ==
  ASSUME IndInv, NEW next \in Steps, pc' = next, i' \in {i, 0},
         UNCHANGED <<dev, Status, ret, DriverFeatures, QueueSel, QueueReady, QueueAddr,
                     negotiated_feature_bits, ready, rxOffered>>,
         \/ pc = "identity" /\ next = "reset" /\ dev.console
         \/ pc = "loaded" /\ next = "features" /\ i' = 0
         \/ /\ pc = "negotiated" /\ next = "features_ok"
            /\ negotiated_feature_bits = Features
         \/ pc = "accepted" /\ next = "queue" /\ i' = 0 /\ "FEATURES_OK" \in Status
  PROVE  IndInv'
<1> USE DEF IndInv, Over, Starting, Greeting, Negotiating, Queueing, Finishing
<1>2. TypeOK'
  BY DEF TypeOK
<1>3. ResultInv' /\ StageInv' /\ DriverOkMeansConfigured'
  BY DEF ResultInv, StageInv, DriverOkMeansConfigured
<1>4. \A f \in dev.offers \cap Features : ~(f[1] < 0)
  BY InitAssumption DEF Words
<1>5. FeatureInv'
  BY <1>4 DEF FeatureInv
<1>6. QueueInv'
  BY DEF QueueInv, Vqs
<1> QED
  BY <1>2, <1>3, <1>5, <1>6

(* A bit is written to the status register; the device may refuse          *)
(* FEATURES_OK.                                                            *)
LEMMA StatusKept ==
  ASSUME IndInv, NEW p, NEW b, NEW next, StatusStep(p, b, next),
         \/ p = "acknowledge" /\ b = "ACKNOWLEDGE" /\ next = "driver"
         \/ p = "driver" /\ b = "DRIVER" /\ next = "loaded"
         \/ p = "features_ok" /\ b = "FEATURES_OK" /\ next = "accepted"
         \/ p = "driver_ok" /\ b = "DRIVER_OK" /\ next = "live"
  PROVE  IndInv'
<1> USE DEF IndInv, Over, Starting, Greeting, Negotiating, Queueing, Finishing
<1>1. /\ pc = p /\ pc' = next /\ Status \subseteq Status' /\ Status' \subseteq Status \cup {b}
      /\ UNCHANGED <<dev, DriverFeatures, QueueSel, QueueReady, QueueAddr, i, negotiated_feature_bits, ready, ret, rxOffered>>
  BY DEF StatusStep, SetStatus, console
<1>2. TypeOK'
  BY <1>1 DEF TypeOK, StatusBits, Steps
<1>3. ResultInv'
  BY <1>1 DEF ResultInv
<1>4. FeatureInv' /\ QueueInv' /\ StageInv'
  BY <1>1 DEF FeatureInv, QueueInv, StageInv
<1>5. DriverOkMeansConfigured'
  <2>1. CASE p = "driver_ok"
    BY <1>1, <2>1 DEF DriverOkMeansConfigured, FeatureInv, QueueInv, StageInv
  <2>2. CASE p # "driver_ok"
    BY <1>1, <2>2 DEF DriverOkMeansConfigured, ResultInv
  <2> QED
    BY <2>1, <2>2
<1> QED
  BY <1>2, <1>3, <1>4, <1>5

(* The two ends of the driver, and the reset.                              *)
LEMMA EndsKept ==
  ASSUME IndInv, FillRx \/ ResetDevice \/ SetReady
  PROVE  IndInv'
<1> USE DEF IndInv, Over, Starting, Greeting, Negotiating, Queueing, Finishing,
            regs, console
<1>1. CASE FillRx
  <2>1. rxOffered' = VIRTQ_SIZE /\ VIRTQ_SIZE \in Nat
    BY <1>1, PoolBuffers, InitAssumption DEF FillRx
  <2>2. /\ pc = "fill" /\ pc' = "identity"
        /\ UNCHANGED <<dev, Status, DriverFeatures, QueueSel, QueueReady, QueueAddr,
                       i, negotiated_feature_bits,
                       ready, ret>>
    BY <1>1 DEF FillRx
  <2>3. TypeOK'
    BY <2>1, <2>2 DEF TypeOK, Steps
  <2>4. "DRIVER_OK" \notin Status
    BY <2>2 DEF ResultInv
  <2> QED
    BY <2>1, <2>2, <2>3, <2>4 DEF ResultInv, FeatureInv, QueueInv, StageInv,
                                 DriverOkMeansConfigured
<1>2. CASE ResetDevice
  <2>1. /\ pc = "reset" /\ pc' = "acknowledge" /\ Status' = {}
        /\ UNCHANGED <<dev, DriverFeatures, QueueSel, QueueReady, QueueAddr,
                       i, negotiated_feature_bits,
                       ready, ret, rxOffered>>
    BY <1>2 DEF ResetDevice
  <2>2. TypeOK'
    BY <2>1 DEF TypeOK, Steps
  <2> QED
    BY <2>1, <2>2 DEF ResultInv, FeatureInv, QueueInv, StageInv, DriverOkMeansConfigured
<1>3. CASE SetReady
  <2>1. /\ pc = "ready" /\ pc' = "done" /\ ready' = TRUE
        /\ UNCHANGED <<dev, Status, DriverFeatures, QueueSel, QueueReady, QueueAddr,
                       i, negotiated_feature_bits,
                       ret, rxOffered>>
    BY <1>3 DEF SetReady
  <2>2. TypeOK'
    BY <2>1 DEF TypeOK, Steps
  <2> QED
    BY <2>1, <2>2 DEF ResultInv, FeatureInv, QueueInv, StageInv, DriverOkMeansConfigured
<1> QED
  BY <1>1, <1>2, <1>3

(* The checks.                                                             *)
LEMMA ChecksKept ==
  ASSUME IndInv, CheckIdentity \/ CheckLoaded \/ CheckFeatures \/ CheckFeaturesOk
  PROVE  IndInv'
<1>0. QueueSel \in Vqs
  BY DEF IndInv, TypeOK
<1>1. CASE Fail
  <2>1. /\ pc \in {"identity", "loaded", "negotiated", "accepted"}
        /\ UNCHANGED <<dev, DriverFeatures, QueueSel, QueueReady, QueueAddr,
                       negotiated_feature_bits, ready, rxOffered>>
    BY DEF CheckIdentity, CheckLoaded, CheckFeatures, CheckFeaturesOk, CheckStatus
  <2> QED
    BY <1>0, <1>1, <2>1, FailKept DEF Over
<1>2. CASE ~Fail
  <2>1. PICK next \in {"reset", "features", "features_ok", "queue"} :
          /\ pc' = next /\ i' \in {i, 0}
          /\ UNCHANGED <<dev, Status, ret, DriverFeatures, QueueSel, QueueReady, QueueAddr,
                         negotiated_feature_bits, ready, rxOffered>>
          /\ \/ pc = "identity" /\ next = "reset" /\ dev.console
             \/ pc = "loaded" /\ next = "features" /\ i' = 0
             \/ /\ pc = "negotiated" /\ next = "features_ok"
                /\ negotiated_feature_bits = Features
             \/ pc = "accepted" /\ next = "queue" /\ i' = 0 /\ "FEATURES_OK" \in Status
    BY <1>2 DEF CheckIdentity, CheckLoaded, CheckFeatures, CheckFeaturesOk, CheckStatus
  <2>2. next \in Steps
    BY DEF Steps
  <2> QED
    BY <2>1, <2>2, PassKept
<1> QED
  BY <1>1, <1>2

LEMMA CheckLiveKept ==
  ASSUME IndInv, CheckLive
  PROVE  IndInv'
<1> USE DEF IndInv
<1>0. /\ pc = "live" /\ QueueSel \in Vqs
      /\ UNCHANGED <<dev, DriverFeatures, QueueSel, QueueReady, QueueAddr,
                     negotiated_feature_bits, ready, rxOffered>>
  BY DEF CheckLive, TypeOK
<1>1. CASE Fail
  BY <1>0, <1>1, FailKept DEF Over
<1>2. CASE ~Fail
  <2>1. /\ Status = {"ACKNOWLEDGE", "DRIVER", "FEATURES_OK", "DRIVER_OK"}
        /\ ret' = TRUE /\ pc' = "ready" /\ UNCHANGED <<Status, i>>
    BY <1>0, <1>2 DEF CheckLive
  <2>2. TypeOK'
    BY <1>0, <2>1 DEF TypeOK, Steps
  <2>3. ResultInv'
    BY <2>1 DEF ResultInv, Over
  <2>4. FeatureInv' /\ QueueInv' /\ StageInv' /\ DriverOkMeansConfigured'
    BY <1>0, <2>1 DEF FeatureInv, QueueInv, StageInv, DriverOkMeansConfigured, Over, Starting,
                      Greeting, Negotiating, Queueing, Finishing
  <2> QED
    BY <2>2, <2>3, <2>4
<1> QED
  BY <1>1, <1>2

(* The loop over the feature words.                                        *)
LEMMA NegotiateKept ==
  ASSUME IndInv, NegotiateWord
  PROVE  IndInv'
<1> USE DEF IndInv
<1>0. /\ pc = "features" /\ i \in 0 .. 1
      /\ DriverFeatures' = DriverFeatures \cup WordOf(i, dev.offers \cap Features)
      /\ negotiated_feature_bits' =
           negotiated_feature_bits \cup WordOf(i, dev.offers \cap Features)
      /\ UNCHANGED <<dev, Status, QueueSel, QueueReady, QueueAddr, ready, ret, rxOffered>>
      /\ i = 1 => pc' = "negotiated" /\ i' = 1
      /\ i # 1 => pc' = "features" /\ i' = 1
  BY DEF NegotiateWord, TypeOK
<1>1. DriverFeatures = {f \in dev.offers \cap Features : f[1] < i}
      /\ DriverFeatures = negotiated_feature_bits
  BY <1>0 DEF FeatureInv
<1>2. \A f \in dev.offers \cap Features : f[1] = 0 \/ f[1] = 1
  BY InitAssumption DEF Words
<1>3. CASE i = 1
  <2>1. DriverFeatures' = dev.offers \cap Features /\ negotiated_feature_bits' = DriverFeatures'
    BY <1>0, <1>1, <1>2, <1>3 DEF WordOf
  <2>2. TypeOK'
    BY <1>0, <1>3, <2>1 DEF TypeOK, Steps
  <2>3. FeatureInv'
    BY <1>0, <1>3, <2>1 DEF FeatureInv, Starting, Greeting, Queueing, Finishing
  <2>4. "DRIVER_OK" \notin Status
    BY <1>0 DEF ResultInv, Over
  <2> QED
    BY <1>0, <1>3, <2>2, <2>3, <2>4 DEF ResultInv, QueueInv, StageInv, DriverOkMeansConfigured,
             Over, Starting, Greeting, Negotiating, Queueing, Finishing
<1>4. CASE i = 0
  <2>1. /\ DriverFeatures' = {f \in dev.offers \cap Features : f[1] < 1}
        /\ negotiated_feature_bits' = DriverFeatures'
    BY <1>0, <1>1, <1>2, <1>4 DEF WordOf
  <2>2. TypeOK'
    <3>1. DriverFeatures' \subseteq Features /\ negotiated_feature_bits' \subseteq Features
      BY <2>1
    <3>2. pc' \in Steps /\ i' \in 0 .. 1
      BY <1>0, <1>4 DEF Steps
    <3> QED
      BY <1>0, <3>1, <3>2 DEF TypeOK
  <2>3. FeatureInv'
    <3>1. pc' = "features" /\ i' = 1 /\ dev' = dev
      BY <1>0, <1>4
    <3>2. DriverFeatures' = {f \in dev'.offers \cap Features : f[1] < i'}
      BY <2>1, <3>1
    <3> QED
      BY <2>1, <3>1, <3>2 DEF FeatureInv, Starting, Greeting, Queueing, Finishing
  <2>4. "DRIVER_OK" \notin Status
    BY <1>0 DEF ResultInv, Over
  <2> QED
    BY <1>0, <1>4, <2>2, <2>3, <2>4 DEF ResultInv, QueueInv, StageInv, DriverOkMeansConfigured,
             Over, Starting, Greeting, Negotiating, Queueing, Finishing
<1> QED
  BY <1>0, <1>3, <1>4

(* The loop over the queues.                                               *)
LEMMA QueuesKept ==
  ASSUME IndInv, SelectQueue \/ WriteAddresses \/ EnableQueue
  PROVE  IndInv'
<1> USE DEF IndInv, Over, Starting, Greeting, Negotiating, Queueing, Finishing
<1>0. /\ i \in 0 .. 1 /\ Vqs = 0 .. 1 /\ QueueSel \in Vqs
      /\ QueueAddr \in [Vqs -> Vqs \cup {None}] /\ QueueReady \subseteq Vqs
  BY DEF TypeOK, Vqs
<1>1. CASE SelectQueue
  <2>1. /\ pc = "queue" /\ QueueSel' = i
        /\ UNCHANGED <<dev, DriverFeatures, QueueReady, QueueAddr,
                       negotiated_feature_bits, ready, rxOffered>>
        /\ Fail \/ (pc' = "addresses" /\ UNCHANGED <<Status, ret, i>>)
    BY <1>1 DEF SelectQueue
  <2>2. CASE Fail
    BY <1>0, <2>1, <2>2, FailKept
  <2>3. CASE pc' = "addresses" /\ UNCHANGED <<Status, ret, i>>
    <3>1. TypeOK'
      BY <1>0, <2>1, <2>3 DEF TypeOK, Steps
    <3>2. "DRIVER_OK" \notin Status
      BY <2>1 DEF ResultInv
    <3> QED
      BY <2>1, <2>3, <3>1, <3>2 DEF ResultInv, FeatureInv, QueueInv, StageInv,
                                    DriverOkMeansConfigured
  <2> QED
    BY <2>1, <2>2, <2>3
<1>2. CASE WriteAddresses
  <2>1. /\ pc = "addresses" /\ pc' = "enable" /\ QueueSel = i
        /\ QueueAddr' = [QueueAddr EXCEPT ![i] = i]
        /\ UNCHANGED <<dev, Status, DriverFeatures, QueueSel, QueueReady, i, negotiated_feature_bits, ready, ret, rxOffered>>
    BY <1>2 DEF WriteAddresses, QueueInv, console
  <2>2. TypeOK'
    BY <1>0, <2>1 DEF TypeOK, Steps
  <2>3. "DRIVER_OK" \notin Status
    BY <2>1 DEF ResultInv
  <2>4. QueueInv'
    BY <1>0, <2>1 DEF QueueInv
  <2> QED
    BY <2>1, <2>2, <2>3, <2>4 DEF ResultInv, FeatureInv, StageInv, DriverOkMeansConfigured
<1>3. CASE EnableQueue
  <2>1. /\ pc = "enable" /\ QueueSel = i /\ QueueReady' = QueueReady \cup {i}
        /\ i = 1 => pc' = "driver_ok" /\ i' = 1
        /\ i # 1 => pc' = "queue" /\ i' = 1
        /\ UNCHANGED <<dev, Status, DriverFeatures, QueueSel, QueueAddr, negotiated_feature_bits, ready, ret, rxOffered>>
    BY <1>0, <1>3 DEF EnableQueue, QueueInv, console
  <2>2. TypeOK'
    BY <1>0, <2>1 DEF TypeOK, Steps
  <2>3. "DRIVER_OK" \notin Status
    BY <2>1 DEF ResultInv
  <2>4. QueueReady' = {q \in Vqs : q <= i} /\ \A q \in Vqs : q <= i => QueueAddr[q] = q
    BY <1>0, <2>1 DEF QueueInv
  <2>5. QueueInv'
    <3>1. CASE i = 1
      BY <1>0, <2>1, <2>4, <3>1 DEF QueueInv
    <3>2. CASE i = 0
      BY <1>0, <2>1, <2>4, <3>2 DEF QueueInv
    <3> QED
      BY <1>0, <3>1, <3>2
  <2>6. pc' \in {"driver_ok", "queue"}
    BY <2>1
  <2> QED
    BY <2>1, <2>2, <2>3, <2>5, <2>6 DEF ResultInv, FeatureInv, StageInv, DriverOkMeansConfigured
<1> QED
  BY <1>1, <1>2, <1>3

(* The device's request for a reset leaves the setup alone.                *)
LEMMA NeedsResetKept ==
  ASSUME IndInv, DeviceNeedsReset
  PROVE  IndInv'
<1> USE DEF IndInv
<1>1. /\ UNCHANGED <<dev, DriverFeatures, QueueSel, QueueReady, QueueAddr, pc, i,
                     negotiated_feature_bits, ready, ret, rxOffered>>
      /\ Status' = Status \cup {"NEEDS_RESET"}
  BY DEF DeviceNeedsReset, console
<1>2. TypeOK'
  BY <1>1 DEF TypeOK, StatusBits
<1>3. \A b \in {"DRIVER_OK", "FEATURES_OK", "FAILED"} : b \in Status' <=> b \in Status
  BY <1>1
<1> QED
  BY <1>1, <1>2, <1>3 DEF ResultInv, FeatureInv, QueueInv, StageInv, DriverOkMeansConfigured

-----------------------------------------------------------------------------
(* The inductive invariant of the initialisation.                          *)
THEOREM Invariance == Spec => []IndInv
<1>1. IndInv /\ [Next]_vars => IndInv'
  <2> SUFFICES ASSUME IndInv, [Next]_vars PROVE IndInv'
    OBVIOUS
  <2>1. CASE UNCHANGED vars
    BY <2>1 DEF vars, IndInv, TypeOK, ResultInv, FeatureInv, QueueInv, StageInv,
                DriverOkMeansConfigured
  <2>2. CASE Driver
    <3>1. CASE Acknowledge \/ DriverLoaded \/ FeaturesOk \/ DriverOk
      BY <3>1, StatusKept DEF Acknowledge, DriverLoaded, FeaturesOk, DriverOk
    <3> QED
      BY <2>2, <3>1, EndsKept, ChecksKept, CheckLiveKept, NegotiateKept, QueuesKept DEF Driver
  <2> QED
    BY <2>1, <2>2, NeedsResetKept DEF Next
<1> QED
  BY <1>1, InitInv, PTL DEF Spec

(* The registers and the variables of the driver keep their types.         *)
THEOREM TypeCorrect == Spec => []TypeOK
<1>1. IndInv => TypeOK
  BY DEF IndInv
<1> QED
  BY <1>1, Invariance, PTL

(* Whatever the device answers, mmio_init writes DRIVER_OK to a console    *)
(* whose features are agreed, whose queues are set up with their own rings *)
(* and to which every receive buffer is offered.                           *)
THEOREM Configured == Spec => []DriverOkMeansConfigured
<1>1. IndInv => DriverOkMeansConfigured
  BY DEF IndInv
<1> QED
  BY <1>1, Invariance, PTL

(* virtio_console_init returns false exactly when it has left FAILED in    *)
(* the status register, and true only with DRIVER_OK there.                *)
THEOREM ResultReported == Spec => []ResultMatchesStatus
<1>1. IndInv => ResultMatchesStatus
  BY DEF IndInv, ResultInv, ResultMatchesStatus, Over
<1> QED
  BY <1>1, Invariance, PTL

-----------------------------------------------------------------------------
(* The console as a whole takes only steps of its two parts: what is       *)
(* proved of virtio_console_init and of virtio_console_receive alone holds *)
(* when they run together on the shared "ready" and the same device.       *)
THEOREM ConsoleIsBoth == ConsoleSpec => Spec /\ RxSpec
<1>1. ConsoleInit => Init /\ RxInit
  BY DEF ConsoleInit
<1>2. [ConsoleNext]_consoleVars => [Next]_vars /\ [RxNext]_rxVars
  <2> SUFFICES ASSUME [ConsoleNext]_consoleVars
               PROVE  [Next]_vars /\ [RxNext]_rxVars
    OBVIOUS
  <2>1. CASE InitStep
    <3>1. Driver /\ UNCHANGED rxOwn
      BY <2>1 DEF InitStep
    <3>2. UNCHANGED ready \/ ready' = TRUE
      BY <3>1 DEF Driver, FillRx, CheckIdentity, ResetDevice, Acknowledge, DriverLoaded,
                  CheckLoaded, NegotiateWord, CheckFeatures, FeaturesOk, CheckFeaturesOk,
                  SelectQueue, WriteAddresses, EnableQueue, DriverOk, CheckLive, SetReady,
                  StatusStep, CheckStatus, console
    <3>3. [RxNext]_rxVars
      BY <3>1, <3>2 DEF RxNext, ConsoleReady, rxVars, rxOwn
    <3> QED
      BY <3>1, <3>3 DEF Next
  <2>2. CASE HandlerStep \/ HandlerGoesOn \/ ReaderLocks \/ ReaderUnlocks \/ DeviceStep
    <3>1. RxNext /\ UNCHANGED initOwn
      BY <2>2 DEF HandlerStep, HandlerGoesOn, ReaderLocks, ReaderUnlocks, DeviceStep,
                  DeviceLive, RxNext
    <3>2. UNCHANGED ready
      BY <2>2 DEF HandlerStep, HandlerGoesOn, ReaderLocks, ReaderUnlocks, DeviceStep,
                  HandlerEnter, HandlerRest, HandlerAck, virtio_console_rx_reset_buffer,
                  TakeUsed, TakeNone, virtio_console_rx_append_buffer, DrainTx,
                  virtio_console_rx_append_null, PrintLock, PrintUnlock, DeviceFill,
                  DeviceTxDone, DeviceConfig
    <3> QED
      BY <3>1, <3>2 DEF vars, initOwn
  <2>3. CASE DeviceResets
    <3>1. DeviceNeedsReset /\ UNCHANGED rxOwn /\ UNCHANGED ready
      BY <2>3 DEF DeviceResets, DeviceNeedsReset, console
    <3> QED
      BY <3>1 DEF Next, rxVars, rxOwn
  <2>4. CASE UNCHANGED consoleVars
    BY <2>4 DEF consoleVars, vars, initOwn, rxVars, rxOwn
  <2> QED
    BY <2>1, <2>2, <2>3, <2>4 DEF ConsoleNext
<1> QED
  BY <1>1, <1>2, PTL DEF ConsoleSpec, Spec, RxSpec
=============================================================================
