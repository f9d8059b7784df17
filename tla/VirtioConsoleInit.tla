-------------------------- MODULE VirtioConsoleInit --------------------------
(***************************************************************************)
(* virtio_console_init: the receive queue is filled, the device is brought *)
(* up through its MMIO registers (virtio_console_mmio_init), and "ready"   *)
(* opens the console to virtio_console_transmit and _receive.              *)
(*                                                                         *)
(* The device at the MMIO base is any device: it may not be a console, may *)
(* lack features, may refuse FEATURES_OK, may have no queue or a queue in  *)
(* use, and may ask for a reset at any time.  What it sends once it sees   *)
(* DRIVER_OK is VirtioConsole's matter.                                    *)
(***************************************************************************)
EXTENDS Integers, FiniteSets, VirtioConsoleShared

CONSTANTS
  Features,         \* VIRTIO_CONSOLE_FEATURES, as pairs <<word, bit>>
  OtherFeatures,    \* what else a device may offer
  VIRTQ_SIZE,
  PoolSize          \* VIRTQ_MEMORY_POOL_SIZE

Words == 0 .. 1    \* VIRTIO_MMIO_FEATURE_SEL_SIZE
Vqs   == 0 .. 1    \* VIRTIO_CONSOLE_NUM_VQS: receive, transmit

ASSUME InitAssumption ==
  /\ \A f \in Features \cup OtherFeatures : f[1] \in Words
  /\ VIRTQ_SIZE \in Nat /\ RX_BUFFER_SIZE \in Nat \ {0}
  /\ PoolSize = VIRTQ_SIZE * RX_BUFFER_SIZE

(***************************************************************************)
(* The device (external): what it answers, fixed for its life.             *)
(***************************************************************************)
Devices ==
  [console : BOOLEAN,          \* magic value, version and device ID match
   offers  : SUBSET (Features \cup OtherFeatures),
   accepts : BOOLEAN,          \* FEATURES_OK stays set
   numMax  : [Vqs -> 0 .. 1],  \* QueueNumMax is zero or not
   inUse   : SUBSET Vqs]       \* QueueReady reads as one before setup

VARIABLES
  dev,
  Status,            \* device status register, as a set of bits
  DriverFeatures,    \* features the driver wrote, accumulated per word
  QueueSel,
  QueueReady,        \* queues set up by the driver
  QueueAddr,         \* queue whose rings the addresses of a queue point to
  pc, i,             \* virtio_console_init: next step, loop variable
  negotiated_feature_bits, ret,
  rxOffered          \* receive buffers in the available ring

console == <<negotiated_feature_bits, ready, ret, rxOffered>>
regs    == <<Status, DriverFeatures, QueueSel, QueueReady, QueueAddr>>
initOwn == <<dev, Status, DriverFeatures, QueueSel, QueueReady, QueueAddr,
             pc, i, negotiated_feature_bits, ret, rxOffered>>
vars    == <<dev, Status, DriverFeatures, QueueSel, QueueReady, QueueAddr,
             pc, i, negotiated_feature_bits, ready, ret, rxOffered>>

None == 2   \* no address written

Init ==
  /\ dev \in Devices
  /\ Status = {} /\ DriverFeatures = {} /\ QueueSel = 0
  /\ QueueReady = {} /\ QueueAddr = [q \in Vqs |-> None]
  /\ pc = "fill" /\ i = 0
  /\ negotiated_feature_bits = {} /\ ready = FALSE /\ ret = FALSE
  /\ rxOffered = 0

-----------------------------------------------------------------------------
(* The status register, written with "|=".                                 *)
SetStatus(b) ==
  Status' = Status \cup (IF b = "FEATURES_OK" /\ ~dev.accepts THEN {} ELSE {b})

FailSilently ==
  /\ ret' = FALSE
  /\ pc' = "ready"
  /\ UNCHANGED <<Status, i>>

(* Every failed check: Status |= FAILED, and mmio_init returns false.      *)
Fail ==
  /\ SetStatus("FAILED")
  /\ ret' = FALSE
  /\ pc' = "ready"
  /\ UNCHANGED i

(* virtio_console_init up to mmio_init: both queues are initialised and    *)
(* every receive buffer that the pool holds is offered.                    *)
FillRx ==
  /\ pc = "fill"
  /\ rxOffered' = PoolSize \div RX_BUFFER_SIZE
  /\ pc' = "identity"
  /\ UNCHANGED <<dev, regs, i, negotiated_feature_bits, ready, ret>>

(* MagicValue, Version and DeviceID.                                       *)
CheckIdentity ==
  /\ pc = "identity"
  /\ \/ ~dev.console /\ Fail
     \/ dev.console /\ pc' = "reset" /\ UNCHANGED <<Status, ret, i>>
  /\ UNCHANGED <<dev, DriverFeatures, QueueSel, QueueReady, QueueAddr,
                 negotiated_feature_bits, ready, rxOffered>>

ResetDevice ==
  /\ pc = "reset"
  /\ Status' = {}
  /\ pc' = "acknowledge"
  /\ UNCHANGED <<dev, DriverFeatures, QueueSel, QueueReady, QueueAddr, i, console>>

(* Status |= b; the driver goes on with step p.                            *)
StatusStep(p, b, next) ==
  /\ pc = p
  /\ SetStatus(b)
  /\ pc' = next
  /\ UNCHANGED <<dev, DriverFeatures, QueueSel, QueueReady, QueueAddr, i, console>>

(* Status is read back and compared.                                       *)
CheckStatus(p, expected, next) ==
  /\ pc = p
  /\ \/ Status # expected /\ Fail
     \/ Status = expected /\ pc' = next /\ i' = 0 /\ UNCHANGED <<Status, ret>>
  /\ UNCHANGED <<dev, DriverFeatures, QueueSel, QueueReady, QueueAddr,
                 negotiated_feature_bits, ready, rxOffered>>

Acknowledge  == StatusStep("acknowledge", "ACKNOWLEDGE", "driver")
DriverLoaded == StatusStep("driver", "DRIVER", "loaded")
CheckLoaded  == CheckStatus("loaded", {"ACKNOWLEDGE", "DRIVER"}, "features")

WordOf(w, S) == {f \in S : f[1] = w}

(* One iteration of the feature loop: both selectors, the offered word     *)
(* masked with VIRTIO_CONSOLE_FEATURES, written back and accumulated.      *)
NegotiateWord ==
  /\ pc = "features"
  /\ DriverFeatures' = DriverFeatures \cup WordOf(i, dev.offers \cap Features)
  /\ negotiated_feature_bits' = negotiated_feature_bits \cup WordOf(i, dev.offers \cap Features)
  /\ IF i = 1 THEN pc' = "negotiated" /\ UNCHANGED i ELSE i' = i + 1 /\ UNCHANGED pc
  /\ UNCHANGED <<dev, Status, QueueSel, QueueReady, QueueAddr, ready, ret, rxOffered>>

(* The negotiated features are compared, then the configuration is read.   *)
CheckFeatures ==
  /\ pc = "negotiated"
  /\ \/ negotiated_feature_bits # Features /\ Fail
     \/ negotiated_feature_bits = Features /\ pc' = "features_ok" /\ UNCHANGED <<Status, ret, i>>
  /\ UNCHANGED <<dev, DriverFeatures, QueueSel, QueueReady, QueueAddr,
                 negotiated_feature_bits, ready, rxOffered>>

FeaturesOk == StatusStep("features_ok", "FEATURES_OK", "accepted")

CheckFeaturesOk == CheckStatus("accepted", {"ACKNOWLEDGE", "DRIVER", "FEATURES_OK"}, "queue")

QueueUsable(q) == q \notin dev.inUse \cup QueueReady /\ dev.numMax[q] # 0

SelectOnce ==
  /\ pc = "queue"
  /\ QueueSel' = 0
  /\ \/ ~QueueUsable(i) /\ Fail
     \/ QueueUsable(i) /\ pc' = "addresses" /\ UNCHANGED <<Status, ret, i>>
  /\ UNCHANGED <<dev, DriverFeatures, QueueReady, QueueAddr,
                 negotiated_feature_bits, ready, rxOffered>>

(* QueueSel is written, QueueReady and QueueNumMax are checked ...         *)
SelectQueue ==
  /\ pc = "queue"
  /\ QueueSel' = i
  /\ \/ ~QueueUsable(i) /\ Fail
     \/ QueueUsable(i) /\ pc' = "addresses" /\ UNCHANGED <<Status, ret, i>>
  /\ UNCHANGED <<dev, DriverFeatures, QueueReady, QueueAddr,
                 negotiated_feature_bits, ready, rxOffered>>

(* ... the six address registers ...                                       *)
WriteAddresses ==
  /\ pc = "addresses"
  /\ QueueAddr' = [QueueAddr EXCEPT ![QueueSel] = i]
  /\ pc' = "enable"
  /\ UNCHANGED <<dev, Status, DriverFeatures, QueueSel, QueueReady, i, console>>

(* ... and QueueReady.                                                     *)
EnableQueue ==
  /\ pc = "enable"
  /\ QueueReady' = QueueReady \cup {QueueSel}
  /\ IF i = 1 THEN pc' = "driver_ok" /\ UNCHANGED i ELSE pc' = "queue" /\ i' = i + 1
  /\ UNCHANGED <<dev, Status, DriverFeatures, QueueSel, QueueAddr, console>>

DriverOk == StatusStep("driver_ok", "DRIVER_OK", "live")

CheckLive ==
  /\ pc = "live"
  /\ \/ Status # {"ACKNOWLEDGE", "DRIVER", "FEATURES_OK", "DRIVER_OK"} /\ Fail
     \/ /\ Status = {"ACKNOWLEDGE", "DRIVER", "FEATURES_OK", "DRIVER_OK"}
        /\ ret' = TRUE
        /\ pc' = "ready"
        /\ UNCHANGED <<Status, i>>
  /\ UNCHANGED <<dev, DriverFeatures, QueueSel, QueueReady, QueueAddr,
                 negotiated_feature_bits, ready, rxOffered>>

(* Back in virtio_console_init: ready = true, whatever mmio_init returned. *)
SetReady ==
  /\ pc = "ready"
  /\ ready' = TRUE
  /\ pc' = "done"
  /\ UNCHANGED <<dev, regs, i, negotiated_feature_bits, ret, rxOffered>>

Driver ==
  \/ FillRx \/ CheckIdentity \/ ResetDevice \/ Acknowledge \/ DriverLoaded \/ CheckLoaded
  \/ NegotiateWord \/ CheckFeatures \/ FeaturesOk \/ CheckFeaturesOk \/ SelectQueue
  \/ WriteAddresses \/ EnableQueue \/ DriverOk \/ CheckLive \/ SetReady

-----------------------------------------------------------------------------
(* The device (external) asks for a reset.                                 *)
DeviceNeedsReset ==
  /\ dev.console /\ Status # {}
  /\ Status' = Status \cup {"NEEDS_RESET"}
  /\ UNCHANGED <<dev, DriverFeatures, QueueSel, QueueReady, QueueAddr, pc, i, console>>

Next == Driver \/ DeviceNeedsReset

Spec == Init /\ [][Next]_vars

-----------------------------------------------------------------------------
(* A device that sees DRIVER_OK is completely configured: it is a console, *)
(* the driver accepted exactly the features it needs and the device agreed *)
(* to them, each queue is enabled with the addresses of its own rings, and *)
(* every receive buffer is available.                                      *)
DriverOkMeansConfigured ==
  "DRIVER_OK" \in Status =>
    /\ dev.console
    /\ DriverFeatures = Features /\ Features \subseteq dev.offers
    /\ "FEATURES_OK" \in Status
    /\ QueueReady = Vqs /\ \A q \in Vqs : QueueAddr[q] = q
    /\ rxOffered = VIRTQ_SIZE

(* virtio_console_init leaves FAILED in the status register if and only if *)
(* it returns false, and it returns true only to a device that is live.    *)
ResultMatchesStatus ==
  pc = "done" =>
    /\ ret <=> "FAILED" \notin Status
    /\ ret => "DRIVER_OK" \in Status
=============================================================================
