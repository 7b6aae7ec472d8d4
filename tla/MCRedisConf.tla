---------------------------- MODULE MCRedisConf -----------------------------
(* Values of the constants of RedisConf for the runs of TLC.               *)
EXTENDS RedisConf

CONSTANTS ip1, ip2

MCIps == {ip1, ip2}

Other   == Line("other", NoIp)
Shipped == <<Line("bind", ip1), Line("comment", NoIp), Other>>

(* /etc/redis.conf of a node that is set up as a replica.                  *)
ReplicaConfs == {<<Line("bind", ip1), Line("slaveof", ip1), Other>>,
                 <<Line("comment", NoIp), Line("slaveof", ip2), Line("bind", ip2)>>}

(* The one that Redis comes with, too.                                     *)
ShippedConfs == {Shipped}
=============================================================================
