---------------------------- MODULE MCDriveClient ---------------------------
EXTENDS DriveClient
=============================================================================
