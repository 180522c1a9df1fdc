--------------------------- MODULE MCLoadBalancer ---------------------------
EXTENDS LoadBalancer

AllConfigs == Config
=============================================================================
