------------------------ MODULE MCAdmissionProjector ------------------------
\* AdmissionProjector with model values for bindings, workloads and secrets.
EXTENDS AdmissionProjector

CONSTANTS b1, w1, w2, s1, s2
=============================================================================
