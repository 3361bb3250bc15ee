------------------------------- MODULE MCEdbus --------------------------------
(* The values TLC runs Edbus with.                                         *)
EXTENDS Edbus, TLC

CONSTANTS
  h1, h2, h3,    \* containers
  c1, c2,        \* cells
  s1, s2, nan, path, dict \* two strings, a double, an object path and a dict

MCData   == {s1, s2, nan, path, dict}
MCTypeOf == s1 :> "string" @@ s2 :> "string" @@ nan :> "double"
              @@ path :> "object_path" @@ dict :> "dict"
MCItems  == MCData \cup [key : MCData, value : MCData]

(* Nothing tells one container, one address or one string from another.    *)
Alike == Permutations({h1, h2, h3}) \cup Permutations({c1, c2}) \cup Permutations({s1, s2})
===============================================================================
