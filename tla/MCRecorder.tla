------------------------------ MODULE MCRecorder ------------------------------
EXTENDS Recorder
=============================================================================
