------------------------------ MODULE MCCodec ------------------------------
(***************************************************************************)
(* The pairs of pack and unpack functions of liblte.  Differ marks a pair  *)
(* whose two functions disagree about the layout; the pair is run, but the *)
(* properties leave it out.  Given fixes fields of the sampled structures: *)
(* the alternative to take, or the part where a message holds a pair that  *)
(* disagrees.  Apart names the fields of such a part where the message     *)
(* cannot do without it.                                                   *)
(***************************************************************************)
EXTENDS Codec, RrcMessages

(* Some RRC and NAS messages have the same name. *)
Nas == INSTANCE NasMessages

IE(n, p, u) ==
  [name |-> n, pack |-> p, unpack |-> u, whole |-> FALSE, agree |-> TRUE,
   unread |-> {"count"}, given |-> <<>>]
MSG(n, p, u) == [IE(n, p, u) EXCEPT !.whole = TRUE]
Differ(c) == [c EXCEPT !.agree = FALSE]
Given(c, m) == [c EXCEPT !.given = m]
Apart(c, fs) == [c EXCEPT !.unread = @ \cup fs]

MCCodecs ==
  {IE("mbsfn_notification_config_ie", pack_mbsfn_notification_config_ie, unpack_mbsfn_notification_config_ie),
    IE("mbsfn_area_info_ie", pack_mbsfn_area_info_ie, unpack_mbsfn_area_info_ie),
    IE("mbsfn_subframe_config_ie", pack_mbsfn_subframe_config_ie, unpack_mbsfn_subframe_config_ie),
    IE("c_rnti_ie", pack_c_rnti_ie, unpack_c_rnti_ie),
    IE("dedicated_info_cdma2000_ie", pack_dedicated_info_cdma2000_ie, unpack_dedicated_info_cdma2000_ie),
    IE("dedicated_info_nas_ie", pack_dedicated_info_nas_ie, unpack_dedicated_info_nas_ie),
    IE("filter_coefficient_ie", pack_filter_coefficient_ie, unpack_filter_coefficient_ie),
    IE("mmec_ie", pack_mmec_ie, unpack_mmec_ie),
    IE("neigh_cell_config_ie", pack_neigh_cell_config_ie, unpack_neigh_cell_config_ie),
    IE("other_config_ie", pack_other_config_ie, unpack_other_config_ie),
    IE("rand_cdma2000_1xrtt_ie", pack_rand_cdma2000_1xrtt_ie, unpack_rand_cdma2000_1xrtt_ie),
    IE("rat_type_ie", pack_rat_type_ie, unpack_rat_type_ie),
    IE("rrc_transaction_identifier_ie", pack_rrc_transaction_identifier_ie, unpack_rrc_transaction_identifier_ie),
    IE("s_tmsi_ie", pack_s_tmsi_ie, unpack_s_tmsi_ie),
    IE("pdcp_params_ie", pack_pdcp_params_ie, unpack_pdcp_params_ie),
    IE("phy_layer_params_ie", pack_phy_layer_params_ie, unpack_phy_layer_params_ie),
    IE("rf_params_ie", pack_rf_params_ie, unpack_rf_params_ie),
    IE("band_info_eutra_ie", pack_band_info_eutra_ie, unpack_band_info_eutra_ie),
    IE("meas_params_ie", pack_meas_params_ie, unpack_meas_params_ie),
    Differ(IE("inter_rat_params_ie", pack_inter_rat_params_ie, unpack_inter_rat_params_ie)),
    Differ(IE("ue_eutra_capability_ie", pack_ue_eutra_capability_ie, unpack_ue_eutra_capability_ie)),
    IE("ue_timers_and_constants_ie", pack_ue_timers_and_constants_ie, unpack_ue_timers_and_constants_ie),
    IE("allowed_meas_bandwidth_ie", pack_allowed_meas_bandwidth_ie, unpack_allowed_meas_bandwidth_ie),
    IE("hysteresis_ie", pack_hysteresis_ie, unpack_hysteresis_ie),
    Differ(IE("meas_config_ie", pack_meas_config_ie, unpack_meas_config_ie)),
    Given(IE("meas_config_ie", pack_meas_config_ie, unpack_meas_config_ie),
      "meas_obj_to_add_mod_list_present" :> 0 @@ "rep_cnfg_to_add_mod_list_present" :> 0 @@ "quantity_cnfg_present" :> 0),
    IE("meas_gap_config_ie", pack_meas_gap_config_ie, unpack_meas_gap_config_ie),
    IE("meas_id_ie", pack_meas_id_ie, unpack_meas_id_ie),
    IE("meas_id_to_add_mod_list_ie", pack_meas_id_to_add_mod_list_ie, unpack_meas_id_to_add_mod_list_ie),
    IE("meas_object_cdma2000_ie", pack_meas_object_cdma2000_ie, unpack_meas_object_cdma2000_ie),
    Differ(IE("meas_object_eutra_ie", pack_meas_object_eutra_ie, unpack_meas_object_eutra_ie)),
    IE("meas_object_geran_ie", pack_meas_object_geran_ie, unpack_meas_object_geran_ie),
    IE("meas_object_id_ie", pack_meas_object_id_ie, unpack_meas_object_id_ie),
    Differ(IE("meas_object_to_add_mod_list_ie", pack_meas_object_to_add_mod_list_ie, unpack_meas_object_to_add_mod_list_ie)),
    IE("meas_object_utra_ie", pack_meas_object_utra_ie, unpack_meas_object_utra_ie),
    Differ(IE("quantity_config_ie", pack_quantity_config_ie, unpack_quantity_config_ie)),
    Given(IE("quantity_config_ie", pack_quantity_config_ie, unpack_quantity_config_ie),
      "qc_eutra_present" :> 0 @@ "qc_utra_present" :> 0 @@ "qc_geran_present" :> 0),
    Differ(IE("report_config_eutra_ie", pack_report_config_eutra_ie, unpack_report_config_eutra_ie)),
    IE("report_config_id_ie", pack_report_config_id_ie, unpack_report_config_id_ie),
    IE("report_config_inter_rat_ie", pack_report_config_inter_rat_ie, unpack_report_config_inter_rat_ie),
    Differ(IE("report_config_to_add_mod_list_ie", pack_report_config_to_add_mod_list_ie, unpack_report_config_to_add_mod_list_ie)),
    Given(IE("report_config_to_add_mod_list_ie", pack_report_config_to_add_mod_list_ie, unpack_report_config_to_add_mod_list_ie),
      "N_rep_cnfg" :> 2 @@ "rep_cnfg_list[0].rep_cnfg_type" :> 1 @@ "rep_cnfg_list[1].rep_cnfg_type" :> 1),
    IE("report_interval_ie", pack_report_interval_ie, unpack_report_interval_ie),
    IE("rsrp_range_ie", pack_rsrp_range_ie, unpack_rsrp_range_ie),
    IE("rsrq_range_ie", pack_rsrq_range_ie, unpack_rsrq_range_ie),
    IE("time_to_trigger_ie", pack_time_to_trigger_ie, unpack_time_to_trigger_ie),
    IE("additional_spectrum_emission_ie", pack_additional_spectrum_emission_ie, unpack_additional_spectrum_emission_ie),
    IE("arfcn_value_cdma2000_ie", pack_arfcn_value_cdma2000_ie, unpack_arfcn_value_cdma2000_ie),
    IE("arfcn_value_eutra_ie", pack_arfcn_value_eutra_ie, unpack_arfcn_value_eutra_ie),
    IE("arfcn_value_geran_ie", pack_arfcn_value_geran_ie, unpack_arfcn_value_geran_ie),
    IE("arfcn_value_utra_ie", pack_arfcn_value_utra_ie, unpack_arfcn_value_utra_ie),
    IE("band_class_cdma2000_ie", pack_band_class_cdma2000_ie, unpack_band_class_cdma2000_ie),
    IE("band_indicator_geran_ie", pack_band_indicator_geran_ie, unpack_band_indicator_geran_ie),
    IE("carrier_freq_cdma2000_ie", pack_carrier_freq_cdma2000_ie, unpack_carrier_freq_cdma2000_ie),
    IE("carrier_freq_geran_ie", pack_carrier_freq_geran_ie, unpack_carrier_freq_geran_ie),
    IE("carrier_freqs_geran_ie", pack_carrier_freqs_geran_ie, unpack_carrier_freqs_geran_ie),
    IE("cdma2000_type_ie", pack_cdma2000_type_ie, unpack_cdma2000_type_ie),
    IE("cell_identity_ie", pack_cell_identity_ie, unpack_cell_identity_ie),
    IE("cell_index_list_ie", pack_cell_index_list_ie, unpack_cell_index_list_ie),
    IE("cell_reselection_priority_ie", pack_cell_reselection_priority_ie, unpack_cell_reselection_priority_ie),
    IE("csfb_registration_param_1xrtt_ie", pack_csfb_registration_param_1xrtt_ie, unpack_csfb_registration_param_1xrtt_ie),
    IE("csfb_registration_param_1xrtt_v920_ie", pack_csfb_registration_param_1xrtt_v920_ie, unpack_csfb_registration_param_1xrtt_v920_ie),
    IE("cell_global_id_eutra_ie", pack_cell_global_id_eutra_ie, unpack_cell_global_id_eutra_ie),
    IE("cell_global_id_utra_ie", pack_cell_global_id_utra_ie, unpack_cell_global_id_utra_ie),
    IE("cell_global_id_geran_ie", pack_cell_global_id_geran_ie, unpack_cell_global_id_geran_ie),
    IE("cell_global_id_cdma2000_ie", pack_cell_global_id_cdma2000_ie, unpack_cell_global_id_cdma2000_ie),
    IE("csg_identity_ie", pack_csg_identity_ie, unpack_csg_identity_ie),
    IE("mobility_control_info_ie", pack_mobility_control_info_ie, unpack_mobility_control_info_ie),
    IE("mobility_state_parameters_ie", pack_mobility_state_parameters_ie, unpack_mobility_state_parameters_ie),
    IE("phys_cell_id_ie", pack_phys_cell_id_ie, unpack_phys_cell_id_ie),
    IE("phys_cell_id_range_ie", pack_phys_cell_id_range_ie, unpack_phys_cell_id_range_ie),
    IE("phys_cell_id_cdma2000_ie", pack_phys_cell_id_cdma2000_ie, unpack_phys_cell_id_cdma2000_ie),
    IE("phys_cell_id_geran_ie", pack_phys_cell_id_geran_ie, unpack_phys_cell_id_geran_ie),
    IE("phys_cell_id_utra_fdd_ie", pack_phys_cell_id_utra_fdd_ie, unpack_phys_cell_id_utra_fdd_ie),
    IE("phys_cell_id_utra_tdd_ie", pack_phys_cell_id_utra_tdd_ie, unpack_phys_cell_id_utra_tdd_ie),
    IE("plmn_identity_ie", pack_plmn_identity_ie, unpack_plmn_identity_ie),
    IE("pre_registration_info_hrpd_ie", pack_pre_registration_info_hrpd_ie, unpack_pre_registration_info_hrpd_ie),
    IE("q_qual_min_ie", pack_q_qual_min_ie, unpack_q_qual_min_ie),
    IE("q_rx_lev_min_ie", pack_q_rx_lev_min_ie, unpack_q_rx_lev_min_ie),
    IE("q_offset_range_ie", pack_q_offset_range_ie, unpack_q_offset_range_ie),
    IE("q_offset_range_inter_rat_ie", pack_q_offset_range_inter_rat_ie, unpack_q_offset_range_inter_rat_ie),
    IE("reselection_threshold_ie", pack_reselection_threshold_ie, unpack_reselection_threshold_ie),
    IE("reselection_threshold_q_ie", pack_reselection_threshold_q_ie, unpack_reselection_threshold_q_ie),
    IE("s_cell_index_ie", pack_s_cell_index_ie, unpack_s_cell_index_ie),
    IE("serv_cell_index_ie", pack_serv_cell_index_ie, unpack_serv_cell_index_ie),
    IE("speed_state_scale_factors_ie", pack_speed_state_scale_factors_ie, unpack_speed_state_scale_factors_ie),
    IE("system_time_info_cdma2000_ie", pack_system_time_info_cdma2000_ie, unpack_system_time_info_cdma2000_ie),
    IE("tracking_area_code_ie", pack_tracking_area_code_ie, unpack_tracking_area_code_ie),
    IE("t_reselection_ie", pack_t_reselection_ie, unpack_t_reselection_ie),
    IE("next_hop_chaining_count_ie", pack_next_hop_chaining_count_ie, unpack_next_hop_chaining_count_ie),
    IE("security_algorithm_config_ie", pack_security_algorithm_config_ie, unpack_security_algorithm_config_ie),
    IE("short_mac_i_ie", pack_short_mac_i_ie, unpack_short_mac_i_ie),
    IE("antenna_info_common_ie", pack_antenna_info_common_ie, unpack_antenna_info_common_ie),
    IE("antenna_info_dedicated_ie", pack_antenna_info_dedicated_ie, unpack_antenna_info_dedicated_ie),
    IE("cqi_report_config_ie", pack_cqi_report_config_ie, unpack_cqi_report_config_ie),
    IE("drb_identity_ie", pack_drb_identity_ie, unpack_drb_identity_ie),
    IE("logical_channel_config_ie", pack_logical_channel_config_ie, unpack_logical_channel_config_ie),
    IE("mac_main_config_ie", pack_mac_main_config_ie, unpack_mac_main_config_ie),
    IE("pdcp_config_ie", pack_pdcp_config_ie, unpack_pdcp_config_ie),
    IE("pdsch_config_common_ie", pack_pdsch_config_common_ie, unpack_pdsch_config_common_ie),
    IE("pdsch_config_dedicated_ie", pack_pdsch_config_dedicated_ie, unpack_pdsch_config_dedicated_ie),
    IE("phich_config_ie", pack_phich_config_ie, unpack_phich_config_ie),
    IE("physical_config_dedicated_ie", pack_physical_config_dedicated_ie, unpack_physical_config_dedicated_ie),
    IE("p_max_ie", pack_p_max_ie, unpack_p_max_ie),
    IE("prach_config_sib_ie", pack_prach_config_sib_ie, unpack_prach_config_sib_ie),
    IE("prach_config_ie", pack_prach_config_ie, unpack_prach_config_ie),
    IE("prach_config_scell_r10_ie", pack_prach_config_scell_r10_ie, unpack_prach_config_scell_r10_ie),
    IE("presence_antenna_port_1_ie", pack_presence_antenna_port_1_ie, unpack_presence_antenna_port_1_ie),
    IE("pucch_config_common_ie", pack_pucch_config_common_ie, unpack_pucch_config_common_ie),
    IE("pucch_config_dedicated_ie", pack_pucch_config_dedicated_ie, unpack_pucch_config_dedicated_ie),
    IE("pusch_config_common_ie", pack_pusch_config_common_ie, unpack_pusch_config_common_ie),
    IE("pusch_config_dedicated_ie", pack_pusch_config_dedicated_ie, unpack_pusch_config_dedicated_ie),
    IE("rach_config_common_ie", pack_rach_config_common_ie, unpack_rach_config_common_ie),
    IE("rach_config_dedicated_ie", pack_rach_config_dedicated_ie, unpack_rach_config_dedicated_ie),
    IE("rr_config_common_sib_ie", pack_rr_config_common_sib_ie, unpack_rr_config_common_sib_ie),
    IE("rr_config_common_ie", pack_rr_config_common_ie, unpack_rr_config_common_ie),
    Given(Differ(IE("rr_config_dedicated_ie", pack_rr_config_dedicated_ie, unpack_rr_config_dedicated_ie)),
      "rlf_timers_and_constants_present" :> 0),
    IE("rlc_config_ie", pack_rlc_config_ie, unpack_rlc_config_ie),
    IE("rlf_timers_and_constants_ie", pack_rlf_timers_and_constants_ie, unpack_rlf_timers_and_constants_ie),
    IE("scheduling_request_config_ie", pack_scheduling_request_config_ie, unpack_scheduling_request_config_ie),
    IE("srs_ul_config_common_ie", pack_srs_ul_config_common_ie, unpack_srs_ul_config_common_ie),
    IE("srs_ul_config_dedicated_ie", pack_srs_ul_config_dedicated_ie, unpack_srs_ul_config_dedicated_ie),
    IE("sps_config_ie", pack_sps_config_ie, unpack_sps_config_ie),
    IE("tdd_config_ie", pack_tdd_config_ie, unpack_tdd_config_ie),
    IE("time_alignment_timer_ie", pack_time_alignment_timer_ie, unpack_time_alignment_timer_ie),
    IE("tpc_pdcch_config_ie", pack_tpc_pdcch_config_ie, unpack_tpc_pdcch_config_ie),
    IE("ul_antenna_info_ie", pack_ul_antenna_info_ie, unpack_ul_antenna_info_ie),
    IE("ul_power_control_common_ie", pack_ul_power_control_common_ie, unpack_ul_power_control_common_ie),
    IE("ul_power_control_dedicated_ie", pack_ul_power_control_dedicated_ie, unpack_ul_power_control_dedicated_ie),
    IE("sys_info_block_type_2_ie", pack_sys_info_block_type_2_ie, unpack_sys_info_block_type_2_ie),
    IE("sys_info_block_type_3_ie", pack_sys_info_block_type_3_ie, unpack_sys_info_block_type_3_ie),
    IE("sys_info_block_type_4_ie", pack_sys_info_block_type_4_ie, unpack_sys_info_block_type_4_ie),
    Differ(IE("sys_info_block_type_5_ie", pack_sys_info_block_type_5_ie, unpack_sys_info_block_type_5_ie)),
    Differ(IE("sys_info_block_type_6_ie", pack_sys_info_block_type_6_ie, unpack_sys_info_block_type_6_ie)),
    Given(IE("sys_info_block_type_6_ie", pack_sys_info_block_type_6_ie, unpack_sys_info_block_type_6_ie),
      "carrier_freq_list_utra_tdd_size" :> 0),
    IE("sys_info_block_type_7_ie", pack_sys_info_block_type_7_ie, unpack_sys_info_block_type_7_ie),
    IE("sys_info_block_type_8_ie", pack_sys_info_block_type_8_ie, unpack_sys_info_block_type_8_ie),
    IE("sys_info_block_type_13_ie", pack_sys_info_block_type_13_ie, unpack_sys_info_block_type_13_ie),
    MSG("ul_information_transfer_msg", pack_ul_information_transfer_msg, unpack_ul_information_transfer_msg),
    MSG("ue_information_request_msg", pack_ue_information_request_msg, unpack_ue_information_request_msg),
    MSG("ue_capability_information_msg", pack_ue_capability_information_msg, unpack_ue_capability_information_msg),
    Differ(MSG("ue_capability_enquiry_msg", pack_ue_capability_enquiry_msg, unpack_ue_capability_enquiry_msg)),
    MSG("sys_info_block_type_1_msg", pack_sys_info_block_type_1_msg, unpack_sys_info_block_type_1_msg),
    Given(MSG("sys_info_msg", pack_sys_info_msg, unpack_sys_info_msg),
      "N_sibs" :> 1 @@ "sibs[0].sib_type" :> 0),
    Given(MSG("sys_info_msg", pack_sys_info_msg, unpack_sys_info_msg),
      "N_sibs" :> 1 @@ "sibs[0].sib_type" :> 1),
    Given(MSG("sys_info_msg", pack_sys_info_msg, unpack_sys_info_msg),
      "N_sibs" :> 1 @@ "sibs[0].sib_type" :> 2),
    Given(MSG("sys_info_msg", pack_sys_info_msg, unpack_sys_info_msg),
      "N_sibs" :> 1 @@ "sibs[0].sib_type" :> 6),
    Given(MSG("sys_info_msg", pack_sys_info_msg, unpack_sys_info_msg),
      "N_sibs" :> 1 @@ "sibs[0].sib_type" :> 11),
    Given(MSG("sys_info_msg", pack_sys_info_msg, unpack_sys_info_msg),
      "N_sibs" :> 2 @@ "sibs[0].sib_type" :> 0 @@ "sibs[1].sib_type" :> 1),
    MSG("security_mode_failure_msg", pack_security_mode_failure_msg, unpack_security_mode_failure_msg),
    MSG("security_mode_complete_msg", pack_security_mode_complete_msg, unpack_security_mode_complete_msg),
    MSG("security_mode_command_msg", pack_security_mode_command_msg, unpack_security_mode_command_msg),
    MSG("rrc_connection_setup_complete_msg", pack_rrc_connection_setup_complete_msg, unpack_rrc_connection_setup_complete_msg),
    Given(MSG("rrc_connection_setup_msg", pack_rrc_connection_setup_msg, unpack_rrc_connection_setup_msg),
      "rr_cnfg.rlf_timers_and_constants_present" :> 0),
    MSG("rrc_connection_request_msg", pack_rrc_connection_request_msg, unpack_rrc_connection_request_msg),
    MSG("rrc_connection_release_msg", pack_rrc_connection_release_msg, unpack_rrc_connection_release_msg),
    MSG("rrc_connection_reject_msg", pack_rrc_connection_reject_msg, unpack_rrc_connection_reject_msg),
    Differ(MSG("rrc_connection_reestablishment_request_msg", pack_rrc_connection_reestablishment_request_msg, unpack_rrc_connection_reestablishment_request_msg)),
    MSG("rrc_connection_reestablishment_reject_msg", pack_rrc_connection_reestablishment_reject_msg, unpack_rrc_connection_reestablishment_reject_msg),
    MSG("rrc_connection_reestablishment_complete_msg", pack_rrc_connection_reestablishment_complete_msg, unpack_rrc_connection_reestablishment_complete_msg),
    Given(Differ(MSG("rrc_connection_reestablishment_msg", pack_rrc_connection_reestablishment_msg, unpack_rrc_connection_reestablishment_msg)),
      "rr_cnfg.rlf_timers_and_constants_present" :> 0),
    MSG("rrc_connection_reconfiguration_complete_msg", pack_rrc_connection_reconfiguration_complete_msg, unpack_rrc_connection_reconfiguration_complete_msg),
    Given(MSG("rrc_connection_reconfiguration_msg", pack_rrc_connection_reconfiguration_msg, unpack_rrc_connection_reconfiguration_msg),
      "meas_cnfg_present" :> 0 @@ "rr_cnfg_ded_present" :> 0),
    Given(MSG("rrc_connection_reconfiguration_msg", pack_rrc_connection_reconfiguration_msg, unpack_rrc_connection_reconfiguration_msg),
      "meas_cnfg_present" :> 0 @@ "sec_cnfg_ho_present" :> 0 @@ "rr_cnfg_ded.rlf_timers_and_constants_present" :> 0),
    MSG("rn_reconfiguration_complete_msg", pack_rn_reconfiguration_complete_msg, unpack_rn_reconfiguration_complete_msg),
    Differ(MSG("proximity_indication_msg", pack_proximity_indication_msg, unpack_proximity_indication_msg)),
    MSG("paging_msg", pack_paging_msg, unpack_paging_msg),
    MSG("dl_information_transfer_msg", pack_dl_information_transfer_msg, unpack_dl_information_transfer_msg),
    MSG("csfb_parameters_request_cdma2000_msg", pack_csfb_parameters_request_cdma2000_msg, unpack_csfb_parameters_request_cdma2000_msg),
    MSG("bcch_bch_msg", pack_bcch_bch_msg, unpack_bcch_bch_msg),
    Given(MSG("bcch_dlsch_msg", pack_bcch_dlsch_msg, unpack_bcch_dlsch_msg),
      "N_sibs" :> 1 @@ "sibs[0].sib_type" :> 12),
    Given(MSG("bcch_dlsch_msg", pack_bcch_dlsch_msg, unpack_bcch_dlsch_msg),
      "N_sibs" :> 2 @@ "sibs[0].sib_type" :> 0 @@ "sibs[1].sib_type" :> 1),
    MSG("pcch_msg", pack_pcch_msg, unpack_pcch_msg),
    Given(MSG("dl_ccch_msg", pack_dl_ccch_msg, unpack_dl_ccch_msg),
      "msg_type" :> 1 @@ "msg.rr_cnfg.rlf_timers_and_constants_present" :> 0),
    Given(MSG("dl_ccch_msg", pack_dl_ccch_msg, unpack_dl_ccch_msg),
      "msg_type" :> 2 @@ "msg.rr_cnfg.rlf_timers_and_constants_present" :> 0),
    Given(MSG("dl_ccch_msg", pack_dl_ccch_msg, unpack_dl_ccch_msg),
      "msg_type" :> 3 @@ "msg.rr_cnfg.rlf_timers_and_constants_present" :> 0),
    Given(MSG("dl_dcch_msg", pack_dl_dcch_msg, unpack_dl_dcch_msg),
      "msg_type" :> 1 @@ "msg.meas_cnfg_present" :> 0 @@ "msg.rr_cnfg_ded_present" :> 0),
    Given(MSG("dl_dcch_msg", pack_dl_dcch_msg, unpack_dl_dcch_msg),
      "msg_type" :> 4 @@ "msg.meas_cnfg_present" :> 0 @@ "msg.rr_cnfg_ded_present" :> 0),
    Given(MSG("dl_dcch_msg", pack_dl_dcch_msg, unpack_dl_dcch_msg),
      "msg_type" :> 5 @@ "msg.meas_cnfg_present" :> 0 @@ "msg.rr_cnfg_ded_present" :> 0),
    Given(MSG("dl_dcch_msg", pack_dl_dcch_msg, unpack_dl_dcch_msg),
      "msg_type" :> 6 @@ "msg.meas_cnfg_present" :> 0 @@ "msg.rr_cnfg_ded_present" :> 0),
    Given(MSG("dl_dcch_msg", pack_dl_dcch_msg, unpack_dl_dcch_msg),
      "msg_type" :> 9 @@ "msg.meas_cnfg_present" :> 0 @@ "msg.rr_cnfg_ded_present" :> 0),
    Given(MSG("ul_ccch_msg", pack_ul_ccch_msg, unpack_ul_ccch_msg),
      "msg_type" :> 1),
    Given(MSG("ul_dcch_msg", pack_ul_dcch_msg, unpack_ul_dcch_msg),
      "msg_type" :> 0),
    Given(MSG("ul_dcch_msg", pack_ul_dcch_msg, unpack_ul_dcch_msg),
      "msg_type" :> 2),
    Given(MSG("ul_dcch_msg", pack_ul_dcch_msg, unpack_ul_dcch_msg),
      "msg_type" :> 3),
    Given(MSG("ul_dcch_msg", pack_ul_dcch_msg, unpack_ul_dcch_msg),
      "msg_type" :> 4),
    Given(MSG("ul_dcch_msg", pack_ul_dcch_msg, unpack_ul_dcch_msg),
      "msg_type" :> 5),
    Given(MSG("ul_dcch_msg", pack_ul_dcch_msg, unpack_ul_dcch_msg),
      "msg_type" :> 6),
    Given(MSG("ul_dcch_msg", pack_ul_dcch_msg, unpack_ul_dcch_msg),
      "msg_type" :> 9),
    Given(MSG("ul_dcch_msg", pack_ul_dcch_msg, unpack_ul_dcch_msg),
      "msg_type" :> 13),
    IE("nas additional_information_ie", Nas!pack_additional_information_ie, Nas!unpack_additional_information_ie),
    IE("nas device_properties_ie", Nas!pack_device_properties_ie, Nas!unpack_device_properties_ie),
    IE("nas eps_bearer_context_status_ie", Nas!pack_eps_bearer_context_status_ie, Nas!unpack_eps_bearer_context_status_ie),
    IE("nas location_area_id_ie", Nas!pack_location_area_id_ie, Nas!unpack_location_area_id_ie),
    IE("nas mobile_id_ie", Nas!pack_mobile_id_ie, Nas!unpack_mobile_id_ie),
    IE("nas mobile_station_classmark_2_ie", Nas!pack_mobile_station_classmark_2_ie, Nas!unpack_mobile_station_classmark_2_ie),
    IE("nas mobile_station_classmark_3_ie", Nas!pack_mobile_station_classmark_3_ie, Nas!unpack_mobile_station_classmark_3_ie),
    IE("nas nas_security_parameters_from_eutra_ie", Nas!pack_nas_security_parameters_from_eutra_ie, Nas!unpack_nas_security_parameters_from_eutra_ie),
    IE("nas nas_security_parameters_to_eutra_ie", Nas!pack_nas_security_parameters_to_eutra_ie, Nas!unpack_nas_security_parameters_to_eutra_ie),
    Differ(IE("nas plmn_list_ie", Nas!pack_plmn_list_ie, Nas!unpack_plmn_list_ie)),
    Given(IE("nas plmn_list_ie", Nas!pack_plmn_list_ie, Nas!unpack_plmn_list_ie),
      "N_plmns" :> 0),
    IE("nas supported_codec_list_ie", Nas!pack_supported_codec_list_ie, Nas!unpack_supported_codec_list_ie),
    IE("nas additional_update_result_ie", Nas!pack_additional_update_result_ie, Nas!unpack_additional_update_result_ie),
    IE("nas additional_update_type_ie", Nas!pack_additional_update_type_ie, Nas!unpack_additional_update_type_ie),
    IE("nas authentication_failure_parameter_ie", Nas!pack_authentication_failure_parameter_ie, Nas!unpack_authentication_failure_parameter_ie),
    IE("nas authentication_parameter_autn_ie", Nas!pack_authentication_parameter_autn_ie, Nas!unpack_authentication_parameter_autn_ie),
    IE("nas authentication_parameter_rand_ie", Nas!pack_authentication_parameter_rand_ie, Nas!unpack_authentication_parameter_rand_ie),
    IE("nas authentication_response_parameter_ie", Nas!pack_authentication_response_parameter_ie, Nas!unpack_authentication_response_parameter_ie),
    IE("nas ciphering_key_sequence_number_ie", Nas!pack_ciphering_key_sequence_number_ie, Nas!unpack_ciphering_key_sequence_number_ie),
    IE("nas csfb_response_ie", Nas!pack_csfb_response_ie, Nas!unpack_csfb_response_ie),
    IE("nas daylight_saving_time_ie", Nas!pack_daylight_saving_time_ie, Nas!unpack_daylight_saving_time_ie),
    IE("nas detach_type_ie", Nas!pack_detach_type_ie, Nas!unpack_detach_type_ie),
    IE("nas drx_parameter_ie", Nas!pack_drx_parameter_ie, Nas!unpack_drx_parameter_ie),
    IE("nas emm_cause_ie", Nas!pack_emm_cause_ie, Nas!unpack_emm_cause_ie),
    IE("nas eps_attach_result_ie", Nas!pack_eps_attach_result_ie, Nas!unpack_eps_attach_result_ie),
    IE("nas eps_attach_type_ie", Nas!pack_eps_attach_type_ie, Nas!unpack_eps_attach_type_ie),
    Given(IE("nas eps_mobile_id_ie", Nas!pack_eps_mobile_id_ie, Nas!unpack_eps_mobile_id_ie),
      "type_of_id" :> 1),
    Given(IE("nas eps_mobile_id_ie", Nas!pack_eps_mobile_id_ie, Nas!unpack_eps_mobile_id_ie),
      "type_of_id" :> 3),
    Given(IE("nas eps_mobile_id_ie", Nas!pack_eps_mobile_id_ie, Nas!unpack_eps_mobile_id_ie),
      "type_of_id" :> 6 @@ "guti.mme_group_id" :> 3855),
    Given(Differ(IE("nas eps_mobile_id_ie", Nas!pack_eps_mobile_id_ie, Nas!unpack_eps_mobile_id_ie)),
      "type_of_id" :> 6),
    IE("nas eps_network_feature_support_ie", Nas!pack_eps_network_feature_support_ie, Nas!unpack_eps_network_feature_support_ie),
    IE("nas eps_update_result_ie", Nas!pack_eps_update_result_ie, Nas!unpack_eps_update_result_ie),
    IE("nas eps_update_type_ie", Nas!pack_eps_update_type_ie, Nas!unpack_eps_update_type_ie),
    IE("nas esm_message_container_ie", Nas!pack_esm_message_container_ie, Nas!unpack_esm_message_container_ie),
    IE("nas gprs_timer_ie", Nas!pack_gprs_timer_ie, Nas!unpack_gprs_timer_ie),
    IE("nas gprs_timer_2_ie", Nas!pack_gprs_timer_2_ie, Nas!unpack_gprs_timer_2_ie),
    IE("nas gprs_timer_3_ie", Nas!pack_gprs_timer_3_ie, Nas!unpack_gprs_timer_3_ie),
    IE("nas identity_type_2_ie", Nas!pack_identity_type_2_ie, Nas!unpack_identity_type_2_ie),
    IE("nas imeisv_request_ie", Nas!pack_imeisv_request_ie, Nas!unpack_imeisv_request_ie),
    IE("nas ksi_and_sequence_number_ie", Nas!pack_ksi_and_sequence_number_ie, Nas!unpack_ksi_and_sequence_number_ie),
    IE("nas ms_network_capability_ie", Nas!pack_ms_network_capability_ie, Nas!unpack_ms_network_capability_ie),
    IE("nas nas_key_set_id_ie", Nas!pack_nas_key_set_id_ie, Nas!unpack_nas_key_set_id_ie),
    IE("nas nas_message_container_ie", Nas!pack_nas_message_container_ie, Nas!unpack_nas_message_container_ie),
    IE("nas nas_security_algorithms_ie", Nas!pack_nas_security_algorithms_ie, Nas!unpack_nas_security_algorithms_ie),
    IE("nas network_name_ie", Nas!pack_network_name_ie, Nas!unpack_network_name_ie),
    IE("nas nonce_ie", Nas!pack_nonce_ie, Nas!unpack_nonce_ie),
    IE("nas paging_identity_ie", Nas!pack_paging_identity_ie, Nas!unpack_paging_identity_ie),
    IE("nas p_tmsi_signature_ie", Nas!pack_p_tmsi_signature_ie, Nas!unpack_p_tmsi_signature_ie),
    IE("nas service_type_ie", Nas!pack_service_type_ie, Nas!unpack_service_type_ie),
    IE("nas short_mac_ie", Nas!pack_short_mac_ie, Nas!unpack_short_mac_ie),
    IE("nas time_zone_ie", Nas!pack_time_zone_ie, Nas!unpack_time_zone_ie),
    Given(IE("nas time_zone_and_time_ie", Nas!pack_time_zone_and_time_ie, Nas!unpack_time_zone_and_time_ie),
      "year" :> 2013),
    IE("nas tmsi_status_ie", Nas!pack_tmsi_status_ie, Nas!unpack_tmsi_status_ie),
    IE("nas tracking_area_id_ie", Nas!pack_tracking_area_id_ie, Nas!unpack_tracking_area_id_ie),
    Differ(IE("nas tracking_area_identity_list_ie", Nas!pack_tracking_area_identity_list_ie, Nas!unpack_tracking_area_identity_list_ie)),
    Differ(IE("nas ue_network_capability_ie", Nas!pack_ue_network_capability_ie, Nas!unpack_ue_network_capability_ie)),
    Given(IE("nas ue_network_capability_ie", Nas!pack_ue_network_capability_ie, Nas!unpack_ue_network_capability_ie),
      "uea_present" :> 1 @@ "ucs2_present" :> 1 @@ "uia_present" :> 1 @@ "lpp_present" :> 0
      @@ "lcs_present" :> 0 @@ "onexsrvcc_present" :> 0 @@ "nf_present" :> 0),
    Given(IE("nas ue_network_capability_ie", Nas!pack_ue_network_capability_ie, Nas!unpack_ue_network_capability_ie),
      "uea_present" :> 1 @@ "ucs2_present" :> 0 @@ "uia_present" :> 0 @@ "lpp_present" :> 0
      @@ "lcs_present" :> 0 @@ "onexsrvcc_present" :> 0 @@ "nf_present" :> 0),
    Given(IE("nas ue_network_capability_ie", Nas!pack_ue_network_capability_ie, Nas!unpack_ue_network_capability_ie),
      "uea_present" :> 0 @@ "ucs2_present" :> 0 @@ "uia_present" :> 0 @@ "lpp_present" :> 0
      @@ "lcs_present" :> 0 @@ "onexsrvcc_present" :> 0 @@ "nf_present" :> 0),
    IE("nas ue_radio_capability_update_needed_ie", Nas!pack_ue_radio_capability_update_needed_ie, Nas!unpack_ue_radio_capability_update_needed_ie),
    Differ(IE("nas ue_security_capabilities_ie", Nas!pack_ue_security_capabilities_ie, Nas!unpack_ue_security_capabilities_ie)),
    Given(IE("nas ue_security_capabilities_ie", Nas!pack_ue_security_capabilities_ie, Nas!unpack_ue_security_capabilities_ie),
      "uea_present" :> 1 @@ "uia_present" :> 1),
    Given(IE("nas ue_security_capabilities_ie", Nas!pack_ue_security_capabilities_ie, Nas!unpack_ue_security_capabilities_ie),
      "uia_present" :> 0 @@ "gea_present" :> 0),
    Differ(IE("nas emergency_number_list_ie", Nas!pack_emergency_number_list_ie, Nas!unpack_emergency_number_list_ie)),
    IE("nas ss_code_ie", Nas!pack_ss_code_ie, Nas!unpack_ss_code_ie),
    IE("nas lcs_indicator_ie", Nas!pack_lcs_indicator_ie, Nas!unpack_lcs_indicator_ie),
    IE("nas generic_message_container_type_ie", Nas!pack_generic_message_container_type_ie, Nas!unpack_generic_message_container_type_ie),
    IE("nas generic_message_container_ie", Nas!pack_generic_message_container_ie, Nas!unpack_generic_message_container_ie),
    IE("nas voice_domain_pref_and_ue_usage_setting_ie", Nas!pack_voice_domain_pref_and_ue_usage_setting_ie, Nas!unpack_voice_domain_pref_and_ue_usage_setting_ie),
    IE("nas guti_type_ie", Nas!pack_guti_type_ie, Nas!unpack_guti_type_ie),
    Given(IE("nas access_point_name_ie", Nas!pack_access_point_name_ie, Nas!unpack_access_point_name_ie),
      "N_labels" :> 1),
    Given(IE("nas access_point_name_ie", Nas!pack_access_point_name_ie, Nas!unpack_access_point_name_ie),
      "N_labels" :> 2),
    IE("nas apn_aggregate_maximum_bit_rate_ie", Nas!pack_apn_aggregate_maximum_bit_rate_ie, Nas!unpack_apn_aggregate_maximum_bit_rate_ie),
    IE("nas connectivity_type_ie", Nas!pack_connectivity_type_ie, Nas!unpack_connectivity_type_ie),
    IE("nas eps_quality_of_service_ie", Nas!pack_eps_quality_of_service_ie, Nas!unpack_eps_quality_of_service_ie),
    IE("nas esm_cause_ie", Nas!pack_esm_cause_ie, Nas!unpack_esm_cause_ie),
    IE("nas esm_info_transfer_flag_ie", Nas!pack_esm_info_transfer_flag_ie, Nas!unpack_esm_info_transfer_flag_ie),
    IE("nas linked_eps_bearer_identity_ie", Nas!pack_linked_eps_bearer_identity_ie, Nas!unpack_linked_eps_bearer_identity_ie),
    IE("nas llc_service_access_point_identifier_ie", Nas!pack_llc_service_access_point_identifier_ie, Nas!unpack_llc_service_access_point_identifier_ie),
    IE("nas notification_indicator_ie", Nas!pack_notification_indicator_ie, Nas!unpack_notification_indicator_ie),
    Differ(IE("nas packet_flow_identifier_ie", Nas!pack_packet_flow_identifier_ie, Nas!unpack_packet_flow_identifier_ie)),
    Differ(IE("nas pdn_address_ie", Nas!pack_pdn_address_ie, Nas!unpack_pdn_address_ie)),
    IE("nas pdn_type_ie", Nas!pack_pdn_type_ie, Nas!unpack_pdn_type_ie),
    IE("nas protocol_config_options_ie", Nas!pack_protocol_config_options_ie, Nas!unpack_protocol_config_options_ie),
    IE("nas quality_of_service_ie", Nas!pack_quality_of_service_ie, Nas!unpack_quality_of_service_ie),
    IE("nas radio_priority_ie", Nas!pack_radio_priority_ie, Nas!unpack_radio_priority_ie),
    IE("nas request_type_ie", Nas!pack_request_type_ie, Nas!unpack_request_type_ie),
    IE("nas traffic_flow_aggregate_description_ie", Nas!pack_traffic_flow_aggregate_description_ie, Nas!unpack_traffic_flow_aggregate_description_ie),
    IE("nas traffic_flow_template_ie", Nas!pack_traffic_flow_template_ie, Nas!unpack_traffic_flow_template_ie),
    IE("nas transaction_identifier_ie", Nas!pack_transaction_identifier_ie, Nas!unpack_transaction_identifier_ie),
    Given(Apart(MSG("nas attach_accept_msg", Nas!pack_attach_accept_msg, Nas!unpack_attach_accept_msg),
      {"tai_list.N_tais", "tai_list.tai[0].mcc", "tai_list.tai[0].mnc", "tai_list.tai[0].tac"}),
      "tai_list.N_tais" :> 1 @@ "guti_present" :> 0 @@ "equivalent_plmns_present" :> 0
      @@ "emerg_num_list_present" :> 0),
    MSG("nas attach_complete_msg", Nas!pack_attach_complete_msg, Nas!unpack_attach_complete_msg),
    MSG("nas attach_reject_msg", Nas!pack_attach_reject_msg, Nas!unpack_attach_reject_msg),
    Given(MSG("nas attach_request_msg", Nas!pack_attach_request_msg, Nas!unpack_attach_request_msg),
      "eps_mobile_id.type_of_id" :> 1 @@ "additional_guti_present" :> 0 @@ "device_properties_present" :> 0
      @@ "ue_network_cap.uea_present" :> 1 @@ "ue_network_cap.ucs2_present" :> 1
      @@ "ue_network_cap.uia_present" :> 1 @@ "ue_network_cap.lpp_present" :> 0 @@ "ue_network_cap.lcs_present" :> 0
      @@ "ue_network_cap.onexsrvcc_present" :> 0 @@ "ue_network_cap.nf_present" :> 0),
    MSG("nas authentication_failure_msg", Nas!pack_authentication_failure_msg, Nas!unpack_authentication_failure_msg),
    MSG("nas authentication_reject_msg", Nas!pack_authentication_reject_msg, Nas!unpack_authentication_reject_msg),
    MSG("nas authentication_request_msg", Nas!pack_authentication_request_msg, Nas!unpack_authentication_request_msg),
    MSG("nas authentication_response_msg", Nas!pack_authentication_response_msg, Nas!unpack_authentication_response_msg),
    MSG("nas detach_accept_msg", Nas!pack_detach_accept_msg, Nas!unpack_detach_accept_msg),
    MSG("nas detach_request_msg", Nas!pack_detach_request_msg, Nas!unpack_detach_request_msg),
    MSG("nas downlink_nas_transport_msg", Nas!pack_downlink_nas_transport_msg, Nas!unpack_downlink_nas_transport_msg),
    Given(MSG("nas emm_information_msg", Nas!pack_emm_information_msg, Nas!unpack_emm_information_msg),
      "utc_and_local_time_zone_present" :> 1 @@ "utc_and_local_time_zone.year" :> 2013),
    MSG("nas emm_status_msg", Nas!pack_emm_status_msg, Nas!unpack_emm_status_msg),
    MSG("nas extended_service_request_msg", Nas!pack_extended_service_request_msg, Nas!unpack_extended_service_request_msg),
    Given(MSG("nas guti_reallocation_command_msg", Nas!pack_guti_reallocation_command_msg, Nas!unpack_guti_reallocation_command_msg),
      "tai_list_present" :> 0),
    MSG("nas guti_reallocation_complete_msg", Nas!pack_guti_reallocation_complete_msg, Nas!unpack_guti_reallocation_complete_msg),
    MSG("nas identity_request_msg", Nas!pack_identity_request_msg, Nas!unpack_identity_request_msg),
    MSG("nas identity_response_msg", Nas!pack_identity_response_msg, Nas!unpack_identity_response_msg),
    Given(MSG("nas security_mode_command_msg", Nas!pack_security_mode_command_msg, Nas!unpack_security_mode_command_msg),
      "ue_security_cap.uea_present" :> 1 @@ "ue_security_cap.uia_present" :> 1),
    MSG("nas security_mode_complete_msg", Nas!pack_security_mode_complete_msg, Nas!unpack_security_mode_complete_msg),
    MSG("nas security_mode_reject_msg", Nas!pack_security_mode_reject_msg, Nas!unpack_security_mode_reject_msg),
    MSG("nas service_reject_msg", Nas!pack_service_reject_msg, Nas!unpack_service_reject_msg),
    MSG("nas service_request_msg", Nas!pack_service_request_msg, Nas!unpack_service_request_msg),
    Given(MSG("nas tracking_area_update_accept_msg", Nas!pack_tracking_area_update_accept_msg, Nas!unpack_tracking_area_update_accept_msg),
      "tai_list_present" :> 0 @@ "equivalent_plmns.N_plmns" :> 0 @@ "emerg_num_list_present" :> 0),
    MSG("nas tracking_area_update_complete_msg", Nas!pack_tracking_area_update_complete_msg, Nas!unpack_tracking_area_update_complete_msg),
    MSG("nas tracking_area_update_reject_msg", Nas!pack_tracking_area_update_reject_msg, Nas!unpack_tracking_area_update_reject_msg),
    MSG("nas uplink_nas_transport_msg", Nas!pack_uplink_nas_transport_msg, Nas!unpack_uplink_nas_transport_msg),
    MSG("nas downlink_generic_nas_transport_msg", Nas!pack_downlink_generic_nas_transport_msg, Nas!unpack_downlink_generic_nas_transport_msg),
    MSG("nas uplink_generic_nas_transport_msg", Nas!pack_uplink_generic_nas_transport_msg, Nas!unpack_uplink_generic_nas_transport_msg),
    MSG("nas activate_dedicated_eps_bearer_context_accept_msg", Nas!pack_activate_dedicated_eps_bearer_context_accept_msg, Nas!unpack_activate_dedicated_eps_bearer_context_accept_msg),
    MSG("nas activate_dedicated_eps_bearer_context_reject_msg", Nas!pack_activate_dedicated_eps_bearer_context_reject_msg, Nas!unpack_activate_dedicated_eps_bearer_context_reject_msg),
    Given(MSG("nas activate_dedicated_eps_bearer_context_request_msg", Nas!pack_activate_dedicated_eps_bearer_context_request_msg, Nas!unpack_activate_dedicated_eps_bearer_context_request_msg),
      "packet_flow_id_present" :> 0),
    MSG("nas activate_default_eps_bearer_context_accept_msg", Nas!pack_activate_default_eps_bearer_context_accept_msg, Nas!unpack_activate_default_eps_bearer_context_accept_msg),
    MSG("nas activate_default_eps_bearer_context_reject_msg", Nas!pack_activate_default_eps_bearer_context_reject_msg, Nas!unpack_activate_default_eps_bearer_context_reject_msg),
    Given(Differ(MSG("nas activate_default_eps_bearer_context_request_msg", Nas!pack_activate_default_eps_bearer_context_request_msg, Nas!unpack_activate_default_eps_bearer_context_request_msg)),
      "packet_flow_id_present" :> 0),
    MSG("nas bearer_resource_allocation_reject_msg", Nas!pack_bearer_resource_allocation_reject_msg, Nas!unpack_bearer_resource_allocation_reject_msg),
    Given(Differ(MSG("nas bearer_resource_allocation_request_msg", Nas!pack_bearer_resource_allocation_request_msg, Nas!unpack_bearer_resource_allocation_request_msg)),
      "device_properties_present" :> 0),
    MSG("nas bearer_resource_modification_reject_msg", Nas!pack_bearer_resource_modification_reject_msg, Nas!unpack_bearer_resource_modification_reject_msg),
    Given(Differ(MSG("nas bearer_resource_modification_request_msg", Nas!pack_bearer_resource_modification_request_msg, Nas!unpack_bearer_resource_modification_request_msg)),
      "device_properties_present" :> 0),
    MSG("nas deactivate_eps_bearer_context_accept_msg", Nas!pack_deactivate_eps_bearer_context_accept_msg, Nas!unpack_deactivate_eps_bearer_context_accept_msg),
    MSG("nas deactivate_eps_bearer_context_request_msg", Nas!pack_deactivate_eps_bearer_context_request_msg, Nas!unpack_deactivate_eps_bearer_context_request_msg),
    MSG("nas esm_information_request_msg", Nas!pack_esm_information_request_msg, Nas!unpack_esm_information_request_msg),
    MSG("nas esm_information_response_msg", Nas!pack_esm_information_response_msg, Nas!unpack_esm_information_response_msg),
    MSG("nas esm_status_msg", Nas!pack_esm_status_msg, Nas!unpack_esm_status_msg),
    MSG("nas modify_eps_bearer_context_accept_msg", Nas!pack_modify_eps_bearer_context_accept_msg, Nas!unpack_modify_eps_bearer_context_accept_msg),
    MSG("nas modify_eps_bearer_context_reject_msg", Nas!pack_modify_eps_bearer_context_reject_msg, Nas!unpack_modify_eps_bearer_context_reject_msg),
    Given(MSG("nas modify_eps_bearer_context_request_msg", Nas!pack_modify_eps_bearer_context_request_msg, Nas!unpack_modify_eps_bearer_context_request_msg),
      "packet_flow_id_present" :> 0 @@ "radio_prio_present" :> 0),
    MSG("nas notification_msg", Nas!pack_notification_msg, Nas!unpack_notification_msg),
    MSG("nas pdn_connectivity_reject_msg", Nas!pack_pdn_connectivity_reject_msg, Nas!unpack_pdn_connectivity_reject_msg),
    MSG("nas pdn_connectivity_request_msg", Nas!pack_pdn_connectivity_request_msg, Nas!unpack_pdn_connectivity_request_msg),
    MSG("nas pdn_disconnect_reject_msg", Nas!pack_pdn_disconnect_reject_msg, Nas!unpack_pdn_disconnect_reject_msg),
    MSG("nas pdn_disconnect_request_msg", Nas!pack_pdn_disconnect_request_msg, Nas!unpack_pdn_disconnect_request_msg)}

MCSeeds == 0..20
============================================================================
