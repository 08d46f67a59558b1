------------------------------ MODULE RtlSource ------------------------------
(* The RTL-SDR source of src/src/sdr/rtl_sdr_source.{h,cpp}: a read thread  *)
(* that sits in rtlsdr_read_async and calls back with every block, and the  *)
(* calls the GUI thread makes.  The device may be pulled out and put back.  *)
(*                                                                         *)
(* Abstractions.  A block is the sample rate it was captured at.  A rate is *)
(* named by what was asked for; the device rounds it the same way each      *)
(* time.  Gain, bias tee, PPM and the DC blocker are left out.              *)
EXTENDS Integers, Sequences

CONSTANTS
  Rates,     (* kRates                                                      *)
  Centres,   (* centre frequencies                                          *)
  InFlight   (* bound: blocks captured and not yet handed over (15 in the code) *)

ASSUME SourceAssumption ==
  /\ Rates \subseteq Nat \ {0} /\ Rates # {}
  /\ Centres \subseteq Nat \ {0} /\ Centres # {}
  /\ InFlight \in Nat \ {0}

VARIABLES
  present,     (* a device is plugged in                                    *)
  dev,         (* dev_: "none", "open", or "lost", open but pulled out      *)
  reader,      (* readThread_, see ReaderStates                             *)
  running,     (* running_                                                  *)
  cancelled,   (* rtlsdr_cancel_async since the start: "no", "sent" to a    *)
               (* read under way, or "early", when there was none           *)
  sdrRate,     (* sampleRate_                                               *)
  sdrCenter,   (* centerFreq_                                               *)
  usb,         (* blocks captured and not yet handed over, oldest first     *)
  hand         (* the block the callback has in hand                        *)

deviceVars == <<present, dev>>
streamVars == <<usb, hand>>
tuneVars   == <<sdrRate, sdrCenter>>
sourceVars == <<deviceVars, reader, running, cancelled, tuneVars, streamVars>>

(* "entering": created, not yet in rtlsdr_read_async; "reading": in it;     *)
(* "buffer", "write": in the callback, before prebuffer() and before the    *)
(* test of isRecording(); "ended": returned, still to be joined.            *)
ReaderStates == {"none", "entering", "reading", "buffer", "write", "ended"}

SourceTypeOK ==
  /\ present \in BOOLEAN
  /\ dev \in {"none", "open", "lost"}
  /\ reader \in ReaderStates
  /\ running \in BOOLEAN
  /\ cancelled \in {"no", "sent", "early"}
  /\ sdrRate \in Rates /\ sdrCenter \in Centres
  /\ usb \in Seq(Rates) /\ Len(usb) <= InFlight
  /\ hand \in Rates

SourceInit ==
  /\ present \in BOOLEAN /\ dev = "none"
  /\ reader = "none" /\ running = FALSE /\ cancelled = "no"
  /\ sdrRate \in Rates /\ sdrCenter \in Centres
  /\ usb = <<>> /\ hand = sdrRate

InRead == reader \in {"reading", "buffer", "write"}

-----------------------------------------------------------------------------
(* The read thread and the device.                                          *)

readerEnters ==
  /\ reader = "entering"
  /\ reader' = "reading"
  /\ UNCHANGED <<deviceVars, running, cancelled, tuneVars, streamVars>>

capture ==
  /\ dev = "open" /\ InRead /\ cancelled # "sent" /\ Len(usb) < InFlight
  /\ usb' = Append(usb, sdrRate)
  /\ UNCHANGED <<deviceVars, reader, running, cancelled, tuneVars, hand>>

onAsync ==
  /\ reader = "reading" /\ running /\ usb # <<>>
  /\ hand' = Head(usb) /\ usb' = Tail(usb)
  /\ reader' = "buffer"
  /\ UNCHANGED <<deviceVars, running, cancelled, tuneVars>>

(* rtlsdr_read_async returns once cancelled or when the device is gone.     *)
readerEnds ==
  /\ reader = "reading" /\ (cancelled = "sent" \/ dev = "lost")
  /\ reader' = "ended" /\ running' = FALSE
  /\ UNCHANGED <<deviceVars, cancelled, tuneVars, streamVars>>

unplug ==
  /\ present
  /\ present' = FALSE /\ dev' = IF dev = "open" THEN "lost" ELSE dev
  /\ UNCHANGED <<reader, running, cancelled, tuneVars, streamVars>>

plug ==
  /\ ~present
  /\ present' = TRUE
  /\ UNCHANGED <<dev, reader, running, cancelled, tuneVars, streamVars>>

-----------------------------------------------------------------------------
(* What the GUI thread calls.                                               *)

(* start() after the setters.  The device may be missing or busy.           *)
startFails ==
  /\ dev' \in (IF present THEN {"none"} ELSE {dev})
  /\ UNCHANGED <<present, reader, running, cancelled, streamVars>>

startOpens ==
  /\ present
  /\ dev' = "open" /\ reader' = "entering" /\ running' = TRUE /\ cancelled' = "no"
  /\ usb' = <<>>
  /\ UNCHANGED <<present, hand>>

(* Assigning to readThread_ while it holds a thread not joined ends the     *)
(* process (std::terminate).                                                *)
Joinable == reader # "none"

(* stop(), first half: cancel a read, if there is one to cancel.            *)
NeverCancelled == cancelled' = "no"                                    (* mutant *)
cancelAsync == cancelled' = IF dev # "none" /\ InRead THEN "sent" ELSE "early"

(* The read began after the cancel that was meant for it, and goes on.      *)
CancelMissed == cancelled = "early" /\ InRead /\ dev = "open"

(* stop(), second half: join, close.                                        *)
joinAndClose ==
  /\ reader \in {"none", "ended"}
  /\ reader' = "none" /\ dev' = "none" /\ running' = FALSE
  /\ cancelled' = "no" /\ usb' = <<>>
  /\ UNCHANGED <<present, tuneVars, hand>>
=============================================================================
