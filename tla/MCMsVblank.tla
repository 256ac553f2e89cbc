----------------------------- MODULE MCMsVblank -----------------------------
(* Model values and bounds for MsVblank.                                    *)
EXTENDS MsVblank, TLC
Setup(crtcs, start, last, aheads) ==
  [crtcs |-> crtcs, start |-> start, last |-> last, aheads |-> aheads]
(* Two CRTCs that flip together, and one whose counter wraps around.        *)
TwoFlip == Setup(2, 0, 1, {0, 1})
OneWraps == Setup(1, 2, 11, {0, 2})
FlipOrWrap == {TwoFlip, OneWraps}
=============================================================================
