-------------------------- MODULE MCReviewSchedule --------------------------
EXTENDS ReviewSchedule

OneTwo == <<1, 2>>
=============================================================================
