----------------------------- MODULE MCTableFsm ------------------------------
EXTENDS TableFsm, HsmMapping, FourMachines

ASSUME RoutesEveryEvent
=============================================================================
