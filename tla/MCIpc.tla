--------------------------------- MODULE MCIpc ---------------------------------
(* The values TLC runs Ipc with: two servers that want two names, and one  *)
(* that has its name and three clients.                                    *)
EXTENDS Ipc, TLC

CONSTANTS first, second, silent

(* The third client only takes up a descriptor.                            *)
MCMaxSends == first :> 2 @@ second :> 1 @@ silent :> 0

MCFds == 1..4
===============================================================================
