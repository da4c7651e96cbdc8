-------------------------- MODULE MCPrivateRecords --------------------------
(* One product and one expense of others, one expense the staff member may    *)
(* record, and anything that can go wrong, while access is gained or lost; or *)
(* what it takes to lose a cost.  Two further configurations change access    *)
(* twice: on the records of others, and before the phone looks.               *)
EXTENDS PrivateRecords
=============================================================================
