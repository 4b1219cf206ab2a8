---------------------------- MODULE MCGeloExecutor ----------------------------
(* GeloExecutor with two workers.  Nine rows and the shield round up to a  *)
(* power of two with padding; one row, two rows and two sequences do not.  *)
EXTENDS GeloExecutor

MCShapes == {Single(1), Single(9), PrefillBatch(2, 2), DecodeBatch(2)}
===============================================================================
