------------------------------ MODULE MCFlowSensor ------------------------------
EXTENDS FlowSensor
=============================================================================
