-------------------------------- MODULE MCGate --------------------------------
(* An operator and a scanner box; the operator also has a viewer's token of   *)
(* its own that expires, and whose scope cannot be parsed. A second setting   *)
(* gives two principals one token.                                            *)
EXTENDS Gate, TLC

CONSTANTS ann, box, tAnn, tBox, tOld, near, far, lab, typo

MCCovers == lab :> {near} @@ typo :> {}

MCEntry(n, t, r, s, e) ==
  [name |-> n, token |-> t, role |-> r, scope |-> s, expires |-> e, short |-> FALSE]

MCSettings ==
  {<<MCEntry(ann, tAnn, "", {}, Never), MCEntry(box, tBox, "scanner", {lab}, Never),
     MCEntry(ann, tOld, "viewer", {typo}, 1)>>,
   <<MCEntry(ann, tAnn, "operator", {}, Never), MCEntry(box, tAnn, "scanner", {lab}, Never)>>}
===============================================================================
