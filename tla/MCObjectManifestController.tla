-------------------- MODULE MCObjectManifestController --------------------
(* Small instances of ObjectManifestController *)
EXTENDS ObjectManifestController, TLC

\* A session of two representations, one of which ends early.  m2 announces a
\* segment before those of m1 and has no update period; m3 is unreadable; m4 has
\* an initialization segment with a bad URL.
MCManifest == {"m1", "m2", "m3", "m4"}
MCUnreadable == {"m3"}
MCMedia == {"v1", "v2", "a1", "a2"}
MCInit == {"init", "init2"}
MCAnnounced ==
  [m \in MCManifest |->
     CASE m = "m1" -> {"v1", "v2", "a1", "init"}
       [] m = "m2" -> {"v2", "a2", "init"}
       [] m = "m4" -> {"v2", "init2"}
       [] OTHER -> {}]
MCRepresentation == [s \in MCMedia |-> IF s \in {"v1", "v2"} THEN "v" ELSE "a"]
MCAvailableFrom ==
  [s \in MCMedia \cup MCInit |->
     CASE s = "v1" -> 1 [] s = "a1" -> 2 [] s = "a2" -> 1 [] s = "v2" -> 3
       [] s = "init2" -> 2 [] OTHER -> 0]
MCUpdatePeriod == [m \in MCManifest |-> IF m = "m2" THEN 0 ELSE 1]
MCLifetime == [m \in MCManifest |-> IF m = "m1" THEN 2 ELSE 0]

\* segments whose URLs the handler refuses
MCBadURL == {"a2", "init2"}
=============================================================================
