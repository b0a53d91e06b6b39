---- MODULE MCClients ----
\* Two clients that ensure one machine; the bounds are given in ensure.cfg.
EXTENDS Clients

ClientSpec == ClientInit /\ [][ClientNext]_clientVars
====
