# Formal model of the MKx LLC host API (veloce-nxp-phy)

This directory holds TLA+ models of the host side of the NXP SAF5x00 "LLC" API.
The API is declared in `src/veloce-nxp-phy/sys/r16/llc-api.h` and
`src/veloce-nxp-phy/sys/r17.1/llc-api.h`. `wrapper.h` only pulls these headers
in for bindgen. The directory also has TLC configurations and TLAPS proofs.

## The system

Three parties interact through an `MKx` handle (`tMKx`):

- **The stack** is the user of the API. Its threads call the
  `static INLINE MKx_*` wrappers of the header. Each wrapper does three things
  in order:
  - it checks the handle: NULL or a bad `Magic` gives
    `MKXSTATUS_FAILURE_INVALID_HANDLE`;
  - it checks some parameters: a `Radio > MKX_RADIO_MAX` or a NULL pointer
    gives `MKXSTATUS_FAILURE_INVALID_PARAM`;
  - it calls a function pointer of `pMKx->API.Functions`.

  The readers `MKx_GetStats` and `MKx_GetAuxADC` copy from the handle's
  read-only `State`. The three getters `MKx_GetAuxADCCfg`, `MKx_GetTemp` and
  `MKx_GetCalibration` work differently:
  - they fill the caller's message with a pattern (0xFF or 0x80);
  - they send it and ignore the result;
  - they immediately `memcpy` the handle's copy back into the message and
    return `MKXSTATUS_SUCCESS`.

  The stack also owns packet buffers (skbs). It lends them to the LLC with
  `MKx_TxReq` and gets them back through `TxCnf`. It gives receive buffers in
  `RxAlloc` and gets them back filled through `RxInd`.
- **The LLC** (LLCRemote, a kernel module, not in this repository) implements
  `Functions`. It sends each request as an MKxIF message to the device over
  USB bulk endpoints or UDP sockets (header, lines 60-123). It applies the
  device's indications to `pMKx->State`/`pMKx->Config` or invokes the
  `Callbacks` (`TxCnf`, `RxAlloc`, `RxInd`, `GetTSFInd`, `NotifInd`, ...).
- **The SAF5x00 device** applies requests, answers queries, measures
  statistics, temperature and ADC values, transmits packets, receives frames
  and flushes queues.

The LLC and the device are not code of this repository. Their behaviour is
taken from the contracts written in the comments of the `fMKx_*` function
types of the header. These contracts are under `src/`, and `PROJECT.json`
maps each definition to them.

In r17.1 the stack can also send the **C2X security applet** of the device
commands (verify a signature, decompress or reconstruct a public key). It uses
`Functions.C2XSecCmd` and receives the answers through `Callbacks.C2XSecRsp`.
Each command carries a USN (a sequence number the stack chooses), so that the
answer can be matched to it. Every message on the transport carries a `Seq`,
which lets the receiver notice a gap.

## Modules

| Module | What it is |
|---|---|
| `MKxAPI.tla` | The model: the wrappers of both revisions, the LLC and the device, and the properties. |
| `MC_MKxAPI.tla` | The TLC instantiation: one thread and one buffer as model values. |
| `MKxAPI_Proofs.tla` | The TLAPS proofs of the type invariant and of buffer ownership. |
| `HandleMirror.tla` | The abstract specification of the indication path: the handle mirrors the device through one ordered channel. It also holds the proof of its invariant `Mirror`. |
| `MKxAPI_Refinement.tla` | The TLAPS proof that `MKxAPI` implements `HandleMirror`, and the proof of `HandleCoherence` that follows from it. |
| `C2XSecLayout.tla` | The r17.1 C2X APDU as numbers: the INS, CurveID and ErrorCode enumerations, `sizeof` of every packed command and response structure, and the `MKXC2XSEC_CMD_*_LC` / `MKXC2XSEC_RSP_*_LR` constants. |
| `MKxC2XSec.tla` | The C2X security exchange: the stack, `Functions.C2XSecCmd`, the device and applet, `Callbacks.C2XSecRsp`, and the transport with its `Seq` check. |
| `MC_MKxC2XSec.tla` | The TLC instantiation: two USNs, every INS and CurveID and one undefined value of each. |
| `MKxC2XSec_Proofs.tla` | The TLAPS proofs of response pairing and of the framing verdicts. |
| `C2XService.tla` | The abstract promise of the C2X interface: requests issued under a free USN, each completed at most once by its USN's callback, with an ErrorCode allowed for its INS and CurveID. |
| `MKxC2XSec_Refinement.tla` | The TLAPS proofs that every response decodes with its command's layout and that `MKxC2XSec` implements `C2XService`. |

### State (`MKxAPI`)

| Variable | Code it stands for |
|---|---|
| `dev[i]` | The device's value of an item. Items are `RadioA`/`RadioB` (radio config), `Calib`, `AuxADCCfg`, `Temp`, `StatsA`/`StatsB`, `AuxADC`. |
| `hnd[i]` | The handle's copy, `pMKx->State.*` / `pMKx->Config.*`. |
| `down`, `up` | The MKxIF messages in flight host→device and device→host, as FIFO sequences (USB bulk). |
| `thr[t]` | A stack thread: idle, or a getter between its send and its `memcpy`. `seen` is the device's value of the item when the getter was called. |
| `ret[t]` | The value the thread's last wrapper call returned. |
| `pktStack[p]`, `pktLlc[p]` | A buffer as the stack sees it (`free`/`held`/`lent`) and as the LLC holds it (`none`/`queued`/`done`/`rx`). |
| `tsfAwait` | `MKx_GetTSFReq` calls that returned success and still await `GetTSFInd`. |
| `ops` | The number of state-changing operations so far, bounded by `MaxOps`. |

Data is abstracted. A configuration or a measurement is the number `ops+1`,
fresh for every new value, so values grow with time and a value tells when it
was made. The getter fills become two symbolic values:
- `FillQuery` is 0xFF, i.e. -1U, which the contract of `fMKx_AuxADCCfg` makes
  a query.
- `FillBogus` is 0x80, which no contract defines. In a calibration it makes
  `Version` 0x80808080, not `CALIBRATION_VERSION` (3U), and the device refuses
  it (`CalibVersionOk`). A temperature has no such field.

### Actions

- **Wrappers.**
  - `MKx_Config`, `MKx_SetTSF`, `MKx_GPIOReq`, `MKx_VersionReq`,
    `MKx_TxFlush` and the three setters share `Dispatch`: handle check, then
    parameter check, then send. The LLC call may also fail, which is
    abstracted to `MKXSTATUS_FAILURE_INTERNAL_ERROR`.
  - `MKx_GPIOReq` and `MKx_VersionReq` exist only when `Rev = "r17.1"`.
  - `MKx_GetTSFReq` differs between revisions. On a bad handle r16 returns 0
    and r17.1 returns INVALID_HANDLE.
  - `MKx_TxReq` lends a held buffer, or gives it back to the stack on failure.
  - `MKx_GetStats` and `MKx_GetAuxADC` only return a code.
  - The getters are two steps:
    - `Getter_Send`: the fill is sent, or the send fails silently.
    - `Getter_Copy`: the `memcpy` and the return.
- **Device.**
  - `DeviceRx` takes the head of `down`:
    - a setting is applied and echoed;
    - a query is answered with the current value;
    - the 0x80 fill of a temperature may be taken either way (a setting under `MKX_TEMP_SOURCE_MANUAL`, a query otherwise); that of a calibration fails the `Version` check and is answered with the current value;
    - GetTSF, GPIO and version requests get a reply;
    - SetTSF has no echo;
    - a flush retires every queued packet, and each still gets its TxEvent.
  - `DeviceMeasure` produces a new measurement and its indication.
  - `DeviceTransmit` retires a queued packet.
  - `DeviceReceive` sends a received frame up.
- **LLC.**
  - `LlcRx` applies the head of `up`: it updates the handle or calls
    `GetTSFInd`.
  - `RxAlloc` takes a received frame. It gets a free buffer from the stack,
    or drops the frame when `*ppBuf == NULL`.
  - `RxInd` and `TxCnf` return buffers to the stack, which frees them.
- **Stack.** `StackAlloc` allocates a buffer for transmission.

### The abstract view (`HandleMirror`) and the refinement

`HandleMirror` keeps only what the LLC promises about `State`/`Config`:
- `dev`, the device's items;
- `hnd`, the handle's copy;
- `chan`, the ordered indications not yet delivered.

Its actions are:
- `Update(i, v)`: the device changes an item and indicates it;
- `Report(i)`: the device answers a query with an item's current value;
- `Event(k, v)`: any other indication;
- `Deliver`: the LLC applies the oldest indication.

`MKxAPI` contains the instance `HM == INSTANCE HandleMirror WITH Kinds <- UpKinds, Vals <- ItemVals, chan <- up`, so `dev` and `hnd` map to themselves. The property `HandleMirrorRefined` is `HM!Spec` with the stuttering disjunct written first, which TLC evaluates faster. The steps map as follows:
- `DeviceRx` is an `Update` (a setting applied), a `Report` (a query, including the 0x80 fill), an `Event`, or a stutter (`SetTSF`, `FlushQ`);
- `DeviceMeasure` is an `Update`;
- `DeviceReceive` is an `Event`;
- `LlcRx` and `RxAlloc` are a `Deliver`;
- every wrapper and buffer step is a stutter.

### The C2X security exchange (`MKxC2XSec`)

The r17.1 header declares `fC2XSec_CommandReq` (`Functions.C2XSecCmd`) and `fC2XSec_ResponseInd` (`Callbacks.C2XSecRsp`). It has no wrapper: the stack calls the function pointer itself. The APDU is `tMKxC2XSecCmdHdr` (USN, INS, CurveID, LC) plus a payload, and `tMKxC2XSecRspHdr` (USN, INS, ErrorCode, LenRsp) plus a payload. `LC` and `LenRsp` count the header.

| Variable | Code it stands for |
|---|---|
| `cmds` | The commands the stack issued. Each is a USN, INS, CurveID and the LC it computed. |
| `outst[u]` | The command the stack awaits under USN `u`, or 0. |
| `cmdWire`, `rspWire` | The `MKXIF_C2XSEC` messages in flight, each with the `tMKxIFMsg.Seq` the sender gave it. |
| `accel` | The commands the applet holds and has not answered. It may answer them in any order. |
| `txSeq`, `devTxSeq`, `devRxSeq`, `rxSeq` | The `Seq` each side sends next or expects next (uint16). |
| `gaps` | The sides whose `Seq` check has seen a missing message. |
| `done[n]` | How command `n` was completed: its ErrorCode, whether the response decodes with the command's layout, and which command the response was for. `id`/`from` are ghost fields, not on the wire. |

The actions are:
- `C2XSec_CommandReq` takes a free USN and builds LC as `sizeof` of the header and the payload structure of the INS and the curve's width.
- `DeviceRxCmd` checks `Seq` and queues the command for the applet.
- `DeviceRsp(m)` answers one of the queued commands. The applet checks INS, then CurveID, then LC against `MKXC2XSEC_CMD_*_LC`. A well-formed command succeeds, or fails on its data (`WRONG_DATA`, or `NO_PRECISE_DIAGNOSIS` for the `SAF_ERROR_C2XSEC_*_TIMEOUT` faults). LenRsp is `MKXC2XSEC_RSP_*_LR`, or 8 on an error.
- `C2XSec_ResponseInd` checks `Seq`, drops a response for a USN it does not await, and otherwise completes that USN's command.
- `Lose`, only when `Lossy` is TRUE, loses one message on the UDP transport.

The applet is firmware, not in this repository, so the order of its checks is inferred from the order of `SAF_ERROR_C2XSEC_*` (r17.1 lines 486-526). The `Seq` check is modelled from the comment at lines 180-183.

## Runs

All runs use one thread, one buffer, `MaxOps = 3` and `MaxQueue = 2`. These
bounds let every kind of request be in flight together with a measurement, a
received frame and a buffer. They allow a getter whose reply is overtaken by a
`Set`, and a flush racing a transmission. With three operations, every
two-actor race between a request, its reply and a measurement occurs. Larger
instances (two threads, with or without a second buffer) do not finish within
ten minutes, also with thread symmetry. Two
threads add only interleavings of independent wrappers, because the wrappers
share no host state besides the handle, which only the LLC writes. The r16
wrappers differ from r17.1 only in `MKx_GetTSFReq` on a bad handle, which
touches `tsfAwait` and nothing the safety invariants read, so r16 gets only
the run that shows that difference (`r16tsf`). The TLAPS proofs of those
invariants hold for both values of `Rev`.

| Run | Expect | Checks | What it shows |
|---|---|---|---|
| `safety` (r17.1) | pass | `TypeOK`, `HandleCoherence`, `OwnershipConsistent` | The handle equals the device whenever both wires are empty. Buffers are never owned by both sides (555k states). |
| `live` (r17.1, `FairSpec`) | pass | `AcceptedTSFReqAnswered`, `PacketEventuallyReturned` | Every accepted GetTSFReq is answered. Every lent buffer comes back, also across `MKx_TxFlush`. |
| `stale` | violation | `GetterFresh` | A getter can return a value older than the device's value at the call. |
| `r16tsf` (r16, `FairSpec`) | violation | `AcceptedTSFReqAnswered` | An r16 GetTSFReq on a bad handle "succeeds" and is never answered. |
| `fill` | violation | `GetterLeavesSettings` | The 0x80 fill of `MKx_GetTemp` may become the device's temperature setting. |
| `refine` (r17.1) | pass | `HandleMirrorRefined` | Every step of the host model is a `HandleMirror` step or leaves its view alone (555k states, about 100 s). |
| `c2x` (`Lossy`) | pass | `ResponsePaired`, `ResponsesDecode`, `FramingRejectedOnlyIfUnsupported` | Even with loss and answers out of order, each response goes to its own command and decodes with its layout. Framing is rejected only for an undefined INS or CurveID (20k states up to USN symmetry). |
| `c2xlive` (`C2XFairSpec`) | pass | `CommandAnswered` | Without loss, every command is answered, also a malformed one (22k states). |
| `c2xrefine` (`Lossy`) | pass | `C2XServiceRefined` | Even with loss and answers out of order, the exchange implements `C2XService` under the mapping that keeps each command's USN, INS and CurveID and forgets the transport (40k states). |
| `c2xloss` (`Lossy`, `C2XFairSpec`) | violation | `LossNoticed` | A lost message can leave a command unanswered with no `Seq` check noticing. |

The C2X runs use two USNs, so two commands can be in flight together. The applet answers them in either order, and a USN is reused once its command completes. `MaxCmds = 2` bounds the commands issued. Each command takes any of the four instructions or the undefined `MKXC2XSEC_INST_COUNT`, and NIST256, Brainpool384r1 or the undefined `MKXC2XSEC_CID_COUNT`. This covers both widths and every check of the applet. Brainpool256r1 has the same layout as NIST256. `MaxCmds = 3` gives 1.7 million states and adds no new kind of step. These runs say `CHECK_DEADLOCK FALSE`: once the stack has issued its commands and they are answered or lost, the interface is idle. The stack is not obliged to issue more.

Each property of a passing run is also checked against a mutant of the code
(listed in `PROJECT.json`), and TLC must find each mutant violated:

| Mutant | Plausible bug | Property that catches it |
|---|---|---|
| `LlcRx_AnyOrder` | Indications applied out of order | `HandleCoherence` |
| `LlcRx_AllIndAsTSF` | Every callback counted as a GetTSFInd | `TypeOK` |
| `TxReq_QueuedOnError` | A packet queued although TxReq failed | `OwnershipConsistent` |
| `GetTSFReq_SuccessOnBadHandle` | The r16 handle check | `AcceptedTSFReqAnswered` |
| `DeviceRx_FlushDrops` | A flush that drops packets without a TxEvent | `PacketEventuallyReturned` |
| `LlcRx_AnyOrder` (run `refine`) | Indications applied out of order | `HandleMirrorRefined` |
| `C2XSec_CommandReq_ReusesUSN` | The stack takes a USN without checking that it is free | `ResponsePaired` |
| `RspPayloadSize_NoVerRes` | The DECOMPRESS_AND_VERIFY response decoded without `VerResult` | `ResponsesDecode` |
| `DPKSize_NoPadding` | `tMKxC2XSecDPK` without its `Padding[3]` | `FramingRejectedOnlyIfUnsupported` |
| `DeviceRxCmd_DropsUnsupported` | The device drops a command with an unknown INS without answering | `CommandAnswered` |
| `C2XSec_ResponseInd_KeepsUSN` | The stack keeps the USN taken after its command completes | `C2XServiceRefined` |

### Findings

1. **Getters return stale data.** This diverges from the comments at
   `r17.1/llc-api.h:4440-4448` and `4506-4514`.
   - The request is said to be sent "so that the MKx replies". The `memcpy`
     that follows does not wait for that reply.
   - The result of the send is ignored, and `MKXSTATUS_SUCCESS` is returned
     regardless.
   - r16 behaves the same way.
2. **r16 `MKx_GetTSFReq` returns 0 (success) on a NULL or bad handle**
   (`r16/llc-api.h:2344`). It sends nothing, so a stack that waits for
   `GetTSFInd` after a success hangs. r17.1 fixed this.
3. **The 0x80 temperature fill is not a documented query**
   (`r17.1/llc-api.h:4445`).
   - `MKx_GetTemp` calls its 0x80-filled `MKXIF_TEMP` message "bogus".
   - But the device accepts an `MKxTemp` as a setting when `SensorSource`
     is `MKX_TEMP_SOURCE_MANUAL` (3145-3150).
   - So it may set both PA temperatures to 0x8080 (-32640 C).
   - The 0x80 fill of `MKx_GetCalibration` is harmless: its `Version` is not
     `CALIBRATION_VERSION`, so the device refuses it
     (`MKXSTATUS_FAILURE_INVALID_CALIBRATION_VERSION`).
   - `MKx_GetAuxADCCfg` uses 0xFF, the documented query.
4. **`Seq` cannot detect the loss of the last message** (`r17.1/llc-api.h:180`).
   A receiver sees a gap only when a later message arrives. The C2X API has
   no timeout. So a lost command or response leaves its command waiting for
   `C2XSecRsp` forever, and its USN stays taken.

## Fairness

`FairSpec` assumes weak fairness of the device processing `down`
(`DeviceRx`), of the LLC processing `up` (`LlcRx`, `RxAlloc`), of
`DeviceTransmit`, and of the `TxCnf` and `RxInd` callbacks. These are
completion handlers and device firmware loops that run whenever they have
work. The stack itself is not obliged to call anything.

`C2XFairSpec` assumes weak fairness of the device reading its wire, of the
applet answering each command it holds, and of the LLC delivering responses.
The applet's fairness is per command: an applet that answered out of order
forever while starving one command would break `CommandAnswered`, and nothing
in the header allows that.

## Proofs (`MKxAPI_Proofs.tla`, TLAPS)

The proofs hold for every number of threads and buffers and every value of
`MaxOps` and `MaxQueue`, under `RevAssumption` and `BoundsAssumption`:

- `TypeCorrect == Spec => []TypeOK`
- `BuffersOwned == Spec => []OwnershipConsistent`

`TypeOK` is not inductive on its own: `tsfAwait \in Nat` needs a reason why
`GetTSFInd` never finds `tsfAwait = 0`. The inductive invariant is
`IInv == TypeOK /\ OwnershipConsistent /\ TSFCounted`, where `TSFCounted` says:

> `tsfAwait` is at least the number of GetTSF messages on both wires.

The r16 path raises `tsfAwait` without a message, which is why the relation
is `>=` and not `=`. The wire-counting lemmas come first:
- `TSFCountAppend`: `Append` adds `IsTSF(m)` to the count.
- `TSFCountTail`: removing the head subtracts it. It is proved with a
  bijection on positions and `FiniteSetTheorems`.

Then there is one lemma per action: the dispatching wrappers, `MKx_GetTSFReq`,
`MKx_TxReq`, the getters, the device steps, `RxAlloc` and `LlcRx`. A case
split in `NextIInv` combines them. `OwnershipConsistent` is part of `IInv`, so
`BuffersOwned` comes from the same induction.

### The refinement (`HandleMirror.tla`, `MKxAPI_Refinement.tla`)

`MirrorInvariant == Spec => []Mirror` is proved in `HandleMirror`. `Mirror`
says that each item is in one of two states:
- it has no indication in the channel, and the handle equals the device; or
- its last indication in the channel carries the device's value.

`Mirror` is inductive together with the type invariant. Four lemmas describe
how `Append` and `Tail` act on one item (`AppendOther`, `AppendSame`,
`TailOther`, `TailSame`).

`Refinement == Spec => HandleMirrorRefined` is proved with one lemma per kind
of step (`DeviceRxRefines`, `LlcRxRefines`, ...). `HandleCoherent == Spec =>
[]HandleCoherence` then follows for every constant: by `Refinement`,
`HM!Mirror` holds in every state, and with both wires empty it gives
`hnd = dev`.

### The C2X exchange (`MKxC2XSec_Proofs.tla`)

Both results hold for every set of USNs, every `MaxCmds` and both values of
`Lossy`, under `C2XAssumption`:

- `C2XResponsesPaired == C2XSpec => []ResponsePaired`
- `C2XFramingSound == C2XSpec => []FramingRejectedOnlyIfUnsupported`

`ResponsePaired` is not inductive. The strengthening `PInv` adds two facts:
- `FlightsOwned`: every message in flight belongs to the command its USN awaits;
- `FlightsDistinct`: no two messages in flight belong to the same command.

The second is what makes freeing a USN on a response safe.
`C2XSec_CommandReq` keeps both only because it takes a free USN: the mutant
`C2XSec_CommandReq_ReusesUSN` breaks them. The lemmas on the wires come first:
`ElemsAppend`, `AppendElems`, `TailElems` and `DropElems`. `DropElems` covers
the removal that `Lose` performs.

`C2XFramingSound` adds `CInv`:
- every command carries the LC the stack computed for it;
- every message carries its command's fields;
- every response's verdict matches its command.

It rests on `LCAgrees`: for every INS and curve, `BuildLC` (the sum of the
packed member sizes) equals the `MKXC2XSEC_CMD_*_LC` constant.

### Decoding and the abstract service (`MKxC2XSec_Refinement.tla`)

- `C2XResponsesDecode == C2XSpec => []ResponsesDecode`. The strengthening
  `DInv` adds `RspsDecode`: every response still on the wire decodes with
  the layout of its command. `DeviceRsp` keeps it by `AnswerDecodes`, which
  rests on `LRAgrees`: for every INS and curve, the `MKXC2XSEC_RSP_*_LR`
  constant equals the header plus `sizeof` of the response structure. An
  error response is 8 bytes, the header alone.
- `C2XRefinement == C2XSpec => C2XServiceRefined`. The mapping `SVC` keeps
  `outst` and `done` and maps each command to its USN, INS and CurveID.
  `C2XSec_CommandReq` maps to `Issue` (`CommandReqIssues`).
  `C2XSec_ResponseInd` that takes a response maps to `Complete`
  (`ResponseIndCompletes`). Every other step leaves the view unchanged
  (`ViewStutters`). The completion step needs three invariants. `PInv`
  gives that the response belongs to the command its USN awaits, and that
  this command is still pending. `DInv` gives that its payload decodes.
  `RspsVerdict` gives that its ErrorCode is one `C2XService!Verdicts` allows.
  That last one rests on `OutcomesVerdicts`: the applet's outcomes for a
  command the stack built are exactly those verdicts.

The two refinement theorems (`Refinement`, `C2XRefinement`) are the
project's proved action properties. Each states that every step of the
detailed specification is a step of the abstract one, or leaves its view
unchanged.

### Left to TLC

These are left to TLC alone:
- The liveness properties (`AcceptedTSFReqAnswered`, `PacketEventuallyReturned`,
  `CommandAnswered`) and the action property `GetterFresh`. TLAPS does not
  reason about fairness or `ENABLED`.

## Not modelled

- **DebugReq, LogReq, LoopbackReq, FaultReq, ResetReq and ErrorInd.** These
  are request/indication pairs without wrappers. ResetReq matters because a
  warm reset invalidates the handle's Config.
- **The legacy r16 C2X framing** (CLA/INS/USN/LC/LE, with `SW` status words,
  r16 lines 1006-1306). r16 declares the structures but no function or
  callback that sends or receives them.
- **Wrap of `Seq` and of the USN.** `Seq` is kept modulo 2^16, but the
  bounded runs send at most four messages, so it never wraps. A USN is
  reused only after its command completes. That a USN is not reused while
  its command is outstanding is a discipline the model assumes of the
  stack: no code in this repository issues C2X commands.
- **The `Seq` handling itself.** The LLC and the device firmware number and
  check `Seq`; neither is in this repository. The model gives each side a
  counter stepped by one per message, from the comment at lines 180-193.
  It is used to show what loss does (`c2xloss`), not checked on its own.
- **The response diagram** (`r17.1/llc-api.h:2474`) shows
  `| USN | CID | EC | LR |`, while `tMKxC2XSecRspHdr` (2484-2496) has `INS`
  as its second field. The model follows the structure. This is a
  documentation mismatch that needs no model to see.
- **Alignment of the C2X payload fields.** `Padding[3]` in
  `tMKxC2XSecDPK*` aligns E to 32 bits relative to the APDU. Inside
  `tMKxC2XSec`, after the 10-byte `tMKxIFMsg`, it lands at offset 54. The
  structures are packed, so this costs speed, not correctness. Sizes are
  modelled and offsets are not.
- **`MKx_Init`/`MKx_Exit`.** They are only declared here. `Init` is the state
  after `MKx_Init`. A handle freed by `MKx_Exit` while a wrapper runs is not
  modelled.
- **Loss and reordering on the host API wires.** The `MKxAPI` wires are
  reliable FIFOs. The `LlcRx_AnyOrder` mutant shows that `HandleCoherence`
  and the refinement depend on this ordering. Loss is modelled on the C2X
  exchange.
- **Layouts other than C2X, field values, endianness, `eSAFErrorCode`, and
  the frame types of `wrapper.h`.** These are data that no property
  distinguishes.

## Plan for later work

1. The auxiliary request/indication functions, with ResetReq's effect on the
   handle.
2. A composition of `MKxAPI` and `MKxC2XSec` over one transport, sharing
   `Seq`.
3. The r16 C2X framing as a second codec, with the `SW` status words.
