------------------------- MODULE MCGenerationWorker -------------------------
(***************************************************************************)
(* Small instances of GenerationWorker, one per .cfg.  t1 and t3 ask for   *)
(* the same key, so that t3 can follow t1; t3 is an image, the others are  *)
(* videos.                                                                 *)
(***************************************************************************)
EXTENDS GenerationWorker, TLC

CONSTANTS t1, t2, t3, t4, k1, k2, k3, video, image, ark, vidu, demo

ImageFirst == <<image, video>>
OneProject == [t \in Tasks |-> demo]

TwoKeys   == [t \in Tasks |-> IF t = t2 THEN k2 ELSE k1]
OwnKeys   == [t \in Tasks |-> CASE t = t1 -> k1 [] t = t2 -> k2 [] OTHER -> k3]
AllVideo  == [t \in Tasks |-> video]
ImageLast == [t \in Tasks |-> IF t = t3 THEN image ELSE video]

\* Every task has its provider on its row.
OnArk      == [t \in Tasks |-> ark]
RoutedArk  == [t \in Tasks |-> {ark}]

\* t2 has none and is routed by the configuration of the moment.
Underived  == [t \in Tasks |-> IF t = t2 THEN None ELSE ark]
RoutedAny  == [t \in Tasks |-> IF t = t2 THEN {ark, vidu} ELSE {ark}]

\* t1 and the underived t2 go to ark, t3 to vidu.
Mixed       == [t \in Tasks |-> CASE t = t1 -> ark [] t = t2 -> None [] OTHER -> vidu]
RoutedMixed == [t \in Tasks |-> IF t = t3 THEN {vidu} ELSE {ark}]

Flat(n)    == [p \in Providers |-> [l \in Lanes |-> n]]
OneSlot    == {Flat(1)}
\* ark may lose its video capability.
Shrinking  == {Flat(1), [Flat(1) EXCEPT ![ark] = [@ EXCEPT ![video] = 0]]}

\* t1 hangs at its provider; everything else goes on.
HangSpec == WorkerSpec /\ FairnessBut({t1})
=============================================================================
