------------------------------ MODULE GpioLib ------------------------------
(***************************************************************************)
(* The kernel's GPIO claims, as the two drivers of the rover use them.     *)
(* External code: only what gpio_request and gpio_free do to the claim of  *)
(* a pin is modelled.  A pin has at most one claimant; a second request is *)
(* refused with -EBUSY.  The kernel does not remember who claimed a pin:   *)
(* gpio_free ends whatever claim there is.  The claimant's name is kept    *)
(* here so that properties can say whose claim was ended.                  *)
(***************************************************************************)

CONSTANT Free   \* the claimant of a pin that nobody has requested

(* The claim that gpio_request tests: is the pin already requested?        *)
Requested(owner, pin) == owner[pin] # Free

(* gpio_request: claims a free pin, changes nothing when it is busy.       *)
GpioRequest(owner, pin, who) ==
  IF Requested(owner, pin) THEN owner ELSE [owner EXCEPT ![pin] = who]

(* gpio_free: ends the claim, without a check of who made it.              *)
GpioFree(owner, pin) == [owner EXCEPT ![pin] = Free]
=============================================================================
