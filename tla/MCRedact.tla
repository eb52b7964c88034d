------------------------------ MODULE MCRedact ------------------------------
(* Redact on every pair of objects, with every set of fields, of three kinds.*)
EXTENDS Redact

MCStores ==
    UNION { LET objs == [kind : {Kind(k)}, fields : SUBSET Fields]
            IN  {<<o>> : o \in objs} \union (objs \X objs) :
            k \in Names }
=============================================================================
