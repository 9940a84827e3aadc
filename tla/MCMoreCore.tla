---------------------------- MODULE MCMoreCore ----------------------------
EXTENDS MoreCore
CONSTANT main

ASSUME InstanceCallsAlone == OneCaller
=============================================================================
