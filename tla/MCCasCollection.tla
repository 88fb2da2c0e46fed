-------------------------- MODULE MCCasCollection --------------------------
(* A session whose manifest shares an object with the ready set of a run.  *)
EXTENDS CasCollection
CONSTANTS manifest, blob, ready, session, run

MCObjects == {manifest, blob, ready}
MCRefs == [x \in MCObjects |-> IF x = blob THEN {} ELSE {blob}]
MCOwners == {session, run}
MCTarget == [o \in MCOwners |-> IF o = session THEN manifest ELSE ready]
=============================================================================
