------------------------------- MODULE MCBus --------------------------------
(* Addresses at the boundaries of every area, and two small cartridges.    *)
EXTENDS Bus

MCAddress ==
  {0, 16384, 49151, 49152, 53248, 57343, 57344,
   65287, 65295, 65407, 65408, 65423, 65424, 65535}
MCRoms == {[a \in 0 .. 1 |-> a], [a \in {0} |-> 255]}
=============================================================================
