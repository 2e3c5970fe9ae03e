---------------------------- MODULE MCLidarDriver ----------------------------
EXTENDS LidarDriver
=============================================================================
