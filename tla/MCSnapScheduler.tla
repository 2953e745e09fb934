-------------------------- MODULE MCSnapScheduler ---------------------------
EXTENDS SnapScheduler

CONSTANTS car, walk, public, own, driving

BothTracks == {car, walk}
BothServers == {public, own}
OneCosting == {driving}
=============================================================================
